---------------------------- MODULE Spec2Model ----------------------------
(***************************************************************************)
(* Model of the test-isolation and session-state core of @g-1/test:        *)
(*   - HttpTestClient (src/src/utils/http-client.ts): cookie jars, request *)
(*     history, timeout race, retry with backoff, status validation;       *)
(*   - the legacy cookie jar of src/src/core.ts (requestWithCookies);      *)
(*   - TestDataStore / ScopedTestData and TestDataFactory (src/src/store.ts)*)
(***************************************************************************)
EXTENDS Integers, Sequences, FiniteSets, TLC

(***************************************************************************)
(* Bounds of the model.                                                    *)
(***************************************************************************)
\* largest value of the `retries` option a caller passes to request()
MaxRetries == 2
\* number of calls made on the data factories
MaxFactoryCalls == 4
\* number of operations on the test store that precede the scripted sequence
MaxStoreOps == 4
\* number of milliseconds the clock advances while the factories are used
MaxClock == 1
\* number of uniqueEmail() calls and of uniqueUsername() calls
MaxEmailCalls == 2
MaxUsernameCalls == 11
\* number of cleanup handlers registered on a store
MaxHandlers == 3
\* number of runCleanup() calls made on a store
MaxCleanupRuns == 2
MaxRegistered == 2
\* number of entries of the per-request headers
MaxHeaders == 2

(***************************************************************************)
(* Values.  Strings of the program are strings here; the absent values     *)
(* (undefined / null) are written as distinguished strings.                *)
(***************************************************************************)
\* the test tasks that issue requests; each runs one request, concurrently
Callers == {"t1", "t2"}

\* a header value that is absent (null) or empty: both are falsy in
\* `if (setCookie)` and `if (existingCookies ...)`
NoCookie == ""
CookieValues == {"sid=abc", "sid=xyz"}
\* value of an explicit `cookie` request header
ExplicitCookie == "x=1"

Undefined == "<undefined>"
\* values a caller passes as session / jar key (options.cookieJar, jarKey)
KeyArgs == {Undefined, "", "A"}
\* keys under which a jar can hold an entry
JarKeys == {"default", "", "A"}

Statuses == {200, 500}

\* options.expectedStatus: undefined, or the list of accepted statuses
NoExpected == [defined |-> FALSE, set |-> {}]
ExpectedArgs == {NoExpected, [defined |-> TRUE, set |-> {200}]}

\* a Response of the application under test; `call` is the number of the
\* app.request invocation (of its request) that produced it
Responses ==
    [status : Statuses, setCookie : CookieValues \cup {NoCookie}, body : {"b1"}]
        \cup {[status |-> 500, setCookie |-> NoCookie, body |-> "b2"]}
NoResponse == [status |-> 0, setCookie |-> NoCookie, body |-> "", call |-> 0]

\* the Error objects request() can hold in lastError
NoError == [kind |-> "none", call |-> 0, status |-> 0, body |-> "", expectedMsg |-> FALSE]
TimeoutError(c) == [kind |-> "timeout", call |-> c, status |-> 0, body |-> "", expectedMsg |-> FALSE]
\* an error thrown by the application; expectedMsg: its message contains
\* the text 'Expected status'
ThrownError(c, m) == [kind |-> "thrown", call |-> c, status |-> 0, body |-> "", expectedMsg |-> m]
\* new Error(`Expected status ${expected}, got ${status}: ${body}`)
StatusError(c, s, b) == [kind |-> "status", call |-> c, status |-> s, body |-> b, expectedMsg |-> TRUE]
\* requestJSON: Error(`Request failed with status ${status}, expected ...: ${text}`)
RequestFailedError(c, s, b) == [kind |-> "status", call |-> c, status |-> s, body |-> b, expectedMsg |-> FALSE]

VARIABLES
    harness,          \* TRUE iff import('cloudflare:test') resolves in this runtime
    cookieJars,       \* HttpTestClient.cookieJars : key -> cookie string
    requestHistory,   \* HttpTestClient.requestHistory
    jar,              \* the module-level CookieJar of core.ts : key -> cookie
    req,              \* per caller: the locals of its request() / requestWithCookies() call
    inflight,         \* the makeAppRequest() promises that have not settled
    appCalls,         \* per caller: number of app.request invocations made for it
    late,             \* per caller: TRUE once the response of an abandoned dispatch arrived
    lastDone,         \* per api and key: the caller whose request received the latest
                      \* response on that key since the key was last cleared
    fakerState,       \* the generator of the faker singleton shared by all factories
    factorySeed,      \* TestDataFactory.seed of each factory instance
    factoryLog,       \* the calls made on the factories, with their results
    clock,            \* the wall clock (new Date()) the date generators read
    emailCounter,     \* core.ts: let emailCounter
    usernameCounter,  \* core.ts: let usernameCounter
    generated,        \* the strings each of uniqueEmail / uniqueUsername has returned
    heap,             \* the TestDataStore objects created through the registry, by identity
    stores,           \* the module-level Map `stores`: level -> identity of its store
    held,             \* the store reference each holder obtained, and the level it asked for
    storeRuns,        \* per store: its runCleanup() call
    sweep,            \* the cleanupAllTestStores() call
    defaultHeaders,   \* HttpTestClient.options.defaultHeaders: its entries in key order
    prepared,         \* the latest prepareHeaders() call: its options and its result
    issued,           \* the callers in the order in which they issued their requests
    received,         \* the callers in the order in which their responses were received
    completed,        \* the callers in the order in which their requests settled
    historyCopy,      \* the array the latest getHistory() call returned
    storeData,        \* TestDataStore.data of the store of one isolation level
    snapshots,        \* ScopedTestData.snapshots of each scoped view
    ret,              \* the latest call on the store and the value it returned
    script,           \* position of the test that runs set; snapshot; delete; restore
    storeOps,         \* number of store operations made so far
    cleanupHandlers,  \* TestDataStore.cleanupHandlers: how each handler behaves
    run,              \* the runCleanup() call: its position and what it did
    adapter,          \* one DatabaseAdapter instance: its fields and its backend
    adapterS0,        \* the live map of the in-memory adapter at its last initialize()
    adapterRet,       \* the latest call on the adapter and how it settled
    sessionClients,   \* the clients made by HttpTestClient.session(), by their session key
    contexts,         \* per test: the object createTestContext() returned to it
    hooks             \* setupTestFramework: its config and the position of the test run

httpVars == <<harness, cookieJars, requestHistory, jar, req, inflight, appCalls, late, lastDone>>
factoryVars == <<fakerState, factorySeed, factoryLog, clock>>
storeVars == <<storeData, snapshots, ret, script, storeOps>>
cleanupVars == <<cleanupHandlers, run>>
adapterVars == <<adapter, adapterS0, adapterRet>>
uniqueVars == <<emailCounter, usernameCounter, generated>>
registryVars == <<heap, stores, held, storeRuns, sweep>>
headerVars == <<defaultHeaders, prepared>>
concurrentVars == <<issued, received, completed, historyCopy>>
contextVars == <<sessionClients, contexts>>
hookVars == <<hooks>>

vars == <<harness, cookieJars, requestHistory, jar, req, inflight, appCalls, late, lastDone,
          fakerState, factorySeed, factoryLog, storeData, snapshots, ret, script, storeOps,
          cleanupHandlers, run, adapter, adapterS0, adapterRet, clock,
          emailCounter, usernameCounter, generated,
          heap, stores, held, storeRuns, sweep,
          defaultHeaders, prepared,
          issued, received, completed, historyCopy,
          sessionClients, contexts,
          hooks>>

NoCaller == "none"

IdleReq == [pc |-> "idle", api |-> "none", key |-> "default", sent |-> NoCookie,
            retries |-> 0, expected |-> NoExpected, attempt |-> 0,
            response |-> NoResponse, lastError |-> NoError, delays |-> <<>>]

(***************************************************************************)
(* HttpTestClient                                                          *)
(***************************************************************************)
\* options.cookieJar || this.options.cookieJar || 'default', for a client
\* constructed with the default options (this.options.cookieJar = 'default')
ClientDefaultJar == "default"
ResolveJar(keyArg) ==
    IF keyArg = Undefined \/ keyArg = "" THEN ClientDefaultJar ELSE keyArg

\* variant: the stored cookie is not attached
PrepareCookieHeaderNoJar(jars, key, explicit) ==
    IF explicit # NoCookie THEN explicit ELSE NoCookie

\* prepareHeaders: the value of the `cookie` header of the outgoing request
PrepareCookieHeader(jars, key, explicit) ==
    IF explicit # NoCookie THEN explicit
    ELSE IF jars[key] # NoCookie THEN jars[key]
    ELSE NoCookie

\* variant: a stored cookie is kept when a later response sets another one
HandleResponseKeepFirst(jars, key, resp) ==
    IF resp.setCookie # NoCookie /\ jars[key] = NoCookie
    THEN [jars EXCEPT ![key] = resp.setCookie] ELSE jars

\* variant: the cookie is stored under the default key of the client
HandleResponseDefaultJar(jars, key, resp) ==
    IF resp.setCookie # NoCookie
    THEN [jars EXCEPT ![ClientDefaultJar] = resp.setCookie] ELSE jars

\* variant: a new cookie is merged into the stored one
HandleResponseMerge(jars, key, resp) ==
    IF resp.setCookie # NoCookie
    THEN [jars EXCEPT ![key] = IF @ = NoCookie THEN resp.setCookie
                               ELSE @ \o "; " \o resp.setCookie]
    ELSE jars

\* handleResponse: the cookie map after a response was received on `key`
HandleResponse(jars, key, resp) ==
    IF resp.setCookie # NoCookie THEN [jars EXCEPT ![key] = resp.setCookie] ELSE jars

\* makeAppRequest up to its first app.request call: with the harness the
\* application is called with env, without it the import throws and the
\* fallback call is made
NewDispatch(t, attempt) ==
    [t |-> t, attempt |-> attempt, call |-> appCalls[t] + 1,
     phase |-> IF harness THEN "env" ELSE "fallback"]

\* the dispatch whose settlement request() of caller d.t is awaiting
Current(d) == req[d.t].pc = "race" /\ req[d.t].attempt = d.attempt

\* 2 ** attempt * 100
BackoffDelay(attempt) == (2 ^ attempt) * 100

\* variant: status errors are retried like any other error
CatchErrorRetryStatus(r, e) ==
    IF r.attempt = r.retries THEN [r EXCEPT !.lastError = e, !.pc = "thrown"]
    ELSE [r EXCEPT !.lastError = e, !.pc = "backoff",
                   !.delays = Append(@, BackoffDelay(r.attempt))]

\* the catch block of request(): r is the record of the call, e the error
CatchError(r, e) ==
    IF e.expectedMsg THEN [r EXCEPT !.lastError = e, !.pc = "thrown"]
    ELSE IF r.attempt = r.retries THEN [r EXCEPT !.lastError = e, !.pc = "thrown"]
    ELSE [r EXCEPT !.lastError = e, !.pc = "backoff",
                   !.delays = Append(@, BackoffDelay(r.attempt))]

\* request(path, options) up to the first await of the race
Request(t, keyArg, explicit, retries, expected) ==
    /\ req[t].pc = "idle"
    /\ LET key == ResolveJar(keyArg) IN
       req' = [req EXCEPT ![t] = [IdleReq EXCEPT !.pc = "race", !.api = "client",
                   !.key = key, !.retries = retries, !.expected = expected,
                   !.sent = PrepareCookieHeader(cookieJars, key, explicit)]]
    /\ inflight' = inflight \cup {NewDispatch(t, 0)}
    /\ appCalls' = [appCalls EXCEPT ![t] = @ + 1]
    /\ UNCHANGED <<harness, cookieJars, requestHistory, jar, late, lastDone>>

\* variant: the response of an abandoned dispatch is handled like any other
LateResponseApplied(d, resp) ==
    /\ late' = [late EXCEPT ![d.t] = TRUE]
    /\ cookieJars' = HandleResponse(cookieJars, req[d.t].key, resp)
    /\ requestHistory' = Append(requestHistory, [request |-> d.t,
           response |-> [status |-> resp.status, setCookie |-> resp.setCookie,
                         body |-> resp.body, call |-> d.call]])
    /\ UNCHANGED <<req, lastDone>>

\* the response of a dispatch that lost the race: the promise settles and
\* nobody reads it
LateResponse(d, resp) ==
    /\ late' = [late EXCEPT ![d.t] = TRUE]
    /\ UNCHANGED <<cookieJars, requestHistory, req, lastDone>>

\* variant: the history is kept newest first
InTimeResponsePrepends(d, resp) ==
    LET t == d.t
        r == req[t]
        got == [status |-> resp.status, setCookie |-> resp.setCookie,
                body |-> resp.body, call |-> d.call]
    IN /\ cookieJars' = HandleResponse(cookieJars, r.key, resp)
       /\ lastDone' = [lastDone EXCEPT !["client"][r.key] = t]
       /\ IF r.expected.defined /\ resp.status \notin r.expected.set
          THEN /\ req' = [req EXCEPT ![t] = [r EXCEPT !.pc = "text", !.response = got]]
               /\ UNCHANGED requestHistory
          ELSE /\ req' = [req EXCEPT ![t] = [r EXCEPT !.pc = "returned", !.response = got]]
               /\ requestHistory' = <<[request |-> t, response |-> got]>> \o requestHistory
       /\ UNCHANGED late

\* the response of the dispatch request() is awaiting: lines 159-180
InTimeResponse(d, resp) ==
    LET t == d.t
        r == req[t]
        got == [status |-> resp.status, setCookie |-> resp.setCookie,
                body |-> resp.body, call |-> d.call]
    IN /\ cookieJars' = HandleResponse(cookieJars, r.key, resp)
       /\ lastDone' = [lastDone EXCEPT !["client"][r.key] = t]
       /\ IF r.expected.defined /\ resp.status \notin r.expected.set
          THEN /\ req' = [req EXCEPT ![t] = [r EXCEPT !.pc = "text", !.response = got]]
               /\ UNCHANGED requestHistory
          ELSE /\ req' = [req EXCEPT ![t] = [r EXCEPT !.pc = "returned", !.response = got]]
               /\ requestHistory' = Append(requestHistory, [request |-> t, response |-> got])
       /\ UNCHANGED late

\* app.request resolves with a Response for a request() call
AppResponds(d, resp) ==
    /\ d \in inflight
    /\ req[d.t].api = "client"
    /\ inflight' = inflight \ {d}
    /\ IF Current(d) THEN InTimeResponse(d, resp) ELSE LateResponse(d, resp)
    /\ UNCHANGED <<harness, jar, appCalls>>

\* variant: the error of the call made with the harness environment leaves
\* makeAppRequest
AppThrowsNoFallback(d, msg) ==
    /\ d \in inflight
    /\ inflight' = inflight \ {d}
    /\ UNCHANGED appCalls
    /\ IF req[d.t].api = "legacy"
       THEN req' = [req EXCEPT ![d.t] = [@ EXCEPT !.pc = "thrown",
                                          !.lastError = ThrownError(d.call, msg)]]
       ELSE IF Current(d)
       THEN req' = [req EXCEPT ![d.t] = CatchError(@, ThrownError(d.call, msg))]
       ELSE UNCHANGED req
    /\ UNCHANGED <<harness, cookieJars, requestHistory, jar, late, lastDone>>

\* app.request throws (rejects) under makeAppRequest of either module
AppThrows(d, msg) ==
    /\ d \in inflight
    /\ IF d.phase = "env"
       THEN \* catch of makeAppRequest: the application is called again
            /\ inflight' = (inflight \ {d}) \cup
                   {[d EXCEPT !.phase = "fallback", !.call = appCalls[d.t] + 1]}
            /\ appCalls' = [appCalls EXCEPT ![d.t] = @ + 1]
            /\ UNCHANGED req
       ELSE /\ inflight' = inflight \ {d}
            /\ UNCHANGED appCalls
            /\ IF req[d.t].api = "legacy"
               THEN \* requestWithCookies has no handler: the error propagates
                    req' = [req EXCEPT ![d.t] = [@ EXCEPT !.pc = "thrown",
                                                   !.lastError = ThrownError(d.call, msg)]]
               ELSE IF Current(d)
               THEN req' = [req EXCEPT ![d.t] = CatchError(@, ThrownError(d.call, msg))]
               ELSE UNCHANGED req
    /\ UNCHANGED <<harness, cookieJars, requestHistory, jar, late, lastDone>>

\* variant: an attempt that timed out is recorded in the history
TimeoutLogged(t) ==
    /\ req[t].pc = "race"
    /\ req[t].api = "client"
    /\ \E d \in inflight :
          /\ d.t = t /\ d.attempt = req[t].attempt
          /\ req' = [req EXCEPT ![t] = CatchError(@, TimeoutError(d.call))]
    /\ requestHistory' = Append(requestHistory, [request |-> t, response |-> NoResponse])
    /\ UNCHANGED <<harness, cookieJars, jar, inflight, appCalls, late, lastDone>>

\* the timer of the current attempt fires first: the race rejects and the
\* dispatch stays in flight
Timeout(t) ==
    /\ req[t].pc = "race"
    /\ req[t].api = "client"
    /\ \E d \in inflight :
          /\ d.t = t /\ d.attempt = req[t].attempt
          /\ req' = [req EXCEPT ![t] = CatchError(@, TimeoutError(d.call))]
    /\ UNCHANGED <<harness, cookieJars, requestHistory, jar, inflight, appCalls, late, lastDone>>

\* `await response.text()` settles and the status error is thrown and caught
StatusMismatch(t) ==
    /\ req[t].pc = "text"
    /\ LET r == req[t] IN
       IF r.api = "legacy"
       THEN req' = [req EXCEPT ![t] = [r EXCEPT !.pc = "thrown",
                      !.lastError = RequestFailedError(r.response.call, r.response.status,
                                                       r.response.body)]]
       ELSE req' = [req EXCEPT ![t] =
                 CatchError(r, StatusError(r.response.call, r.response.status, r.response.body))]
    /\ UNCHANGED <<harness, cookieJars, requestHistory, jar, inflight, appCalls, late, lastDone>>

\* variant: every iteration of the loop prepares the headers again
RetryPreparesHeaders(t) ==
    /\ req[t].pc = "backoff"
    /\ req' = [req EXCEPT ![t] = [@ EXCEPT !.pc = "race", !.attempt = @ + 1,
                   !.sent = PrepareCookieHeader(cookieJars, req[t].key, NoCookie)]]
    /\ inflight' = inflight \cup {NewDispatch(t, req[t].attempt + 1)}
    /\ appCalls' = [appCalls EXCEPT ![t] = @ + 1]
    /\ UNCHANGED <<harness, cookieJars, requestHistory, jar, late, lastDone>>

\* the backoff timer fires: the next iteration of the loop starts
Retry(t) ==
    /\ req[t].pc = "backoff"
    /\ req' = [req EXCEPT ![t] = [@ EXCEPT !.pc = "race", !.attempt = @ + 1]]
    /\ inflight' = inflight \cup {NewDispatch(t, req[t].attempt + 1)}
    /\ appCalls' = [appCalls EXCEPT ![t] = @ + 1]
    /\ UNCHANGED <<harness, cookieJars, requestHistory, jar, late, lastDone>>

\* `if (jarKey) delete(jarKey) else clear()`: the keys whose entry is removed
ClearedKeys(keyArg) ==
    IF keyArg # Undefined /\ keyArg # "" THEN {keyArg} ELSE JarKeys

\* clearCookies(jarKey?)
ClearCookies(keyArg) ==
    /\ cookieJars' = [k \in JarKeys |->
                        IF k \in ClearedKeys(keyArg) THEN NoCookie ELSE cookieJars[k]]
    /\ lastDone' = [lastDone EXCEPT !["client"] =
                       [k \in JarKeys |-> IF k \in ClearedKeys(keyArg) THEN NoCaller ELSE @[k]]]
    /\ UNCHANGED <<harness, requestHistory, jar, req, inflight, appCalls, late>>

(***************************************************************************)
(* core.ts: requestWithCookies over the module-level cookie jar            *)
(***************************************************************************)
\* the default parameter jarKey = 'default' applies to undefined only
LegacyJarKey(keyArg) == IF keyArg = Undefined THEN "default" ELSE keyArg

\* requestWithCookies up to the await of makeAppRequest: lines 101-113
RequestWithCookies(t, keyArg, explicit) ==
    /\ req[t].pc = "idle"
    /\ LET key == LegacyJarKey(keyArg) IN
       req' = [req EXCEPT ![t] = [IdleReq EXCEPT !.pc = "await", !.api = "legacy",
                   !.key = key,
                   !.sent = IF explicit # NoCookie THEN explicit ELSE jar[key]]]
    /\ inflight' = inflight \cup {NewDispatch(t, 0)}
    /\ appCalls' = [appCalls EXCEPT ![t] = @ + 1]
    /\ UNCHANGED <<harness, cookieJars, requestHistory, jar, late, lastDone>>

\* requestJSON up to the await inside requestWithCookies: `expected` defaults
\* to 200 and the request is made by requestWithCookies
JsonExpected == [defined |-> TRUE, set |-> {200}]
RequestJSON(t, keyArg, explicit) ==
    /\ req[t].pc = "idle"
    /\ LET key == LegacyJarKey(keyArg) IN
       req' = [req EXCEPT ![t] = [IdleReq EXCEPT !.pc = "await", !.api = "legacy",
                   !.key = key, !.expected = JsonExpected,
                   !.sent = IF explicit # NoCookie THEN explicit ELSE jar[key]]]
    /\ inflight' = inflight \cup {NewDispatch(t, 0)}
    /\ appCalls' = [appCalls EXCEPT ![t] = @ + 1]
    /\ UNCHANGED <<harness, cookieJars, requestHistory, jar, late, lastDone>>

\* variant: requestJSON checks the status before the cookie is captured
LegacyRespondsValidatesFirst(d, resp) ==
    /\ d \in inflight
    /\ req[d.t].api = "legacy"
    /\ inflight' = inflight \ {d}
    /\ jar' = IF resp.setCookie # NoCookie
                 /\ ~(req[d.t].expected.defined /\ resp.status \notin req[d.t].expected.set)
              THEN [jar EXCEPT ![req[d.t].key] = resp.setCookie] ELSE jar
    /\ req' = [req EXCEPT ![d.t] = [@ EXCEPT
                   !.pc = IF req[d.t].expected.defined /\ resp.status \notin req[d.t].expected.set
                          THEN "text" ELSE "returned",
                   !.response = [status |-> resp.status, setCookie |-> resp.setCookie,
                                 body |-> resp.body, call |-> d.call]]]
    /\ lastDone' = [lastDone EXCEPT !["legacy"][req[d.t].key] = d.t]
    /\ UNCHANGED <<harness, cookieJars, requestHistory, appCalls, late>>

\* requestWithCookies after the await (lines 115-121); under requestJSON the
\* status of the returned response is then compared with `expected`
LegacyResponds(d, resp) ==
    /\ d \in inflight
    /\ req[d.t].api = "legacy"
    /\ inflight' = inflight \ {d}
    /\ jar' = IF resp.setCookie # NoCookie
              THEN [jar EXCEPT ![req[d.t].key] = resp.setCookie] ELSE jar
    /\ req' = [req EXCEPT ![d.t] = [@ EXCEPT
                   !.pc = IF req[d.t].expected.defined /\ resp.status \notin req[d.t].expected.set
                          THEN "text" ELSE "returned",
                   !.response = [status |-> resp.status, setCookie |-> resp.setCookie,
                                 body |-> resp.body, call |-> d.call]]]
    /\ lastDone' = [lastDone EXCEPT !["legacy"][req[d.t].key] = d.t]
    /\ UNCHANGED <<harness, cookieJars, requestHistory, appCalls, late>>

\* resetCookies(jarKey?)
ResetCookies(keyArg) ==
    /\ jar' = [k \in JarKeys |-> IF k \in ClearedKeys(keyArg) THEN NoCookie ELSE jar[k]]
    /\ lastDone' = [lastDone EXCEPT !["legacy"] =
                       [k \in JarKeys |-> IF k \in ClearedKeys(keyArg) THEN NoCaller ELSE @[k]]]
    /\ UNCHANGED <<harness, cookieJars, requestHistory, req, inflight, appCalls, late>>

(***************************************************************************)
(* TestDataFactory over the shared faker generator                         *)
(***************************************************************************)
\* the module-level `factory` and a second instance (createSeededFactory)
Factories == {"factory", "seeded"}
DefaultSeed == 12345
Seeds == {1, 99}
\* config?.seed === undefined
NoSeed == -1
NotConstructed == -2

\* faker.seed(s): the generator restarts the sequence of seed s
FakerSeed(s) == [seed |-> s, draws |-> 0]
\* the value a generator function (user()) builds from the generator state:
\* it is determined by the seed and by how much of the sequence was consumed
Generate(st) == <<st.seed, st.draws>>
\* the generator state after the generator function has drawn its values
Consume(st) == [st EXCEPT !.draws = @ + 1]
\* the date fields of the generated object (birthDate, createdAt, updatedAt):
\* faker.date.birthdate / recent take the current time as reference date and
\* move it by an offset drawn from the generator
GenerateDates(st, now) == [ref |-> now, offset |-> <<st.seed, st.draws>>]
\* no date fields: the entry of a call that generates nothing
NoDates == [ref |-> 0, offset |-> <<>>]

\* new TestDataFactory(seed): constructor and initialize()
Construct(f, s) ==
    /\ factorySeed[f] = NotConstructed
    /\ Len(factoryLog) < MaxFactoryCalls
    /\ factorySeed' = [factorySeed EXCEPT ![f] = s]
    /\ fakerState' = FakerSeed(s)
    /\ factoryLog' = Append(factoryLog, [op |-> "new", f |-> f, seed |-> s, out |-> <<>>,
                                       dates |-> NoDates])
    /\ UNCHANGED clock

\* setSeed(seed)
SetSeed(f, s) ==
    /\ factorySeed[f] # NotConstructed
    /\ Len(factoryLog) < MaxFactoryCalls
    /\ factorySeed' = [factorySeed EXCEPT ![f] = s]
    /\ fakerState' = FakerSeed(s)
    /\ factoryLog' = Append(factoryLog, [op |-> "setSeed", f |-> f, seed |-> s, out |-> <<>>,
                                       dates |-> NoDates])
    /\ UNCHANGED clock

\* the generator state left by the `finally` block of createFactory
RestoreAfter(st, originalSeed, cfgSeed) ==
    IF cfgSeed # NoSeed THEN FakerSeed(originalSeed) ELSE st

\* factory.user(config): the function createFactory returns
User(f, cfgSeed) ==
    /\ factorySeed[f] # NotConstructed
    /\ Len(factoryLog) < MaxFactoryCalls
    /\ LET originalSeed == factorySeed[f]
           start == IF cfgSeed # NoSeed THEN FakerSeed(cfgSeed) ELSE fakerState
           result == Generate(start)
       IN /\ fakerState' = RestoreAfter(Consume(start), originalSeed, cfgSeed)
          /\ factoryLog' = Append(factoryLog,
                               [op |-> "user", f |-> f, seed |-> cfgSeed, out |-> result,
                                dates |-> GenerateDates(start, clock)])
    /\ UNCHANGED <<factorySeed, clock>>

\* a millisecond passes
Tick ==
    /\ clock < MaxClock
    /\ clock' = clock + 1
    /\ UNCHANGED <<fakerState, factorySeed, factoryLog>>

InitFactory ==
    /\ factorySeed = [f \in Factories |-> IF f = "factory" THEN DefaultSeed ELSE NotConstructed]
    /\ fakerState = FakerSeed(DefaultSeed)
    /\ factoryLog = <<>>
    /\ clock = 0

NextFactory ==
    /\ \/ \E s \in Seeds : Construct("seeded", s)
       \/ \E f \in Factories, s \in Seeds : SetSeed(f, s)
       \/ \E f \in Factories, s \in Seeds \cup {NoSeed} : User(f, s)
       \/ Tick
    /\ UNCHANGED <<httpVars, storeVars, cleanupVars, adapterVars, uniqueVars, registryVars, headerVars, concurrentVars, contextVars, hookVars>>

(***************************************************************************)
(* TestDataStore and ScopedTestData                                        *)
(***************************************************************************)
\* strings are sequences of characters, so that prefixing and startsWith
\* are computed
Colon == <<":">>
\* the scopes of the ScopedTestData views: "a", "b" and "a:b"
Scopes == {<<"a">>, <<"b">>, <<"a", ":", "b">>}
\* the keys callers use on a view: "k" and "b:k"
UserKeys == {<<"k">>, <<"b", ":", "k">>}
\* a key written directly into the TestDataStore: "x"
RawKeys == {<<"x">>}
Values == {"v1", "v2"}
\* Map.get of a missing key
Absent == "<absent>"
SnapNames == {"s"}

\* getScopedKey: `${this.scope}:${key}`
GetScopedKey(scope, key) == scope \o Colon \o key
\* `${this.scope}:`
Prefix(scope) == scope \o Colon

\* every key the store can hold in this model
StoreKeys == {GetScopedKey(sc, k) : sc \in Scopes, k \in UserKeys} \cup RawKeys

\* String.prototype.startsWith
StartsWith(str, pre) ==
    Len(pre) <= Len(str) /\ SubSeq(str, 1, Len(pre)) = pre
\* String.prototype.substring(n)
Substring(str, n) == SubSeq(str, n + 1, Len(str))

\* store.keys()
Keys(data) == {p \in StoreKeys : data[p] # Absent}
\* store.keys().filter(key => key.startsWith(prefix))
KeysWithPrefix(data, scope) == {p \in Keys(data) : StartsWith(p, Prefix(scope))}

\* ScopedTestData.get
ScopedGet(data, scope, key) == data[GetScopedKey(scope, key)]
\* ScopedTestData.keys
ScopedKeys(data, scope) ==
    {Substring(p, Len(Prefix(scope))) : p \in KeysWithPrefix(data, scope)}
\* variant: clear() empties the whole store
ClearedWholeStore(data, scope) == [p \in StoreKeys |-> Absent]

\* the data after ScopedTestData.clear
Cleared(data, scope) ==
    [p \in StoreKeys |-> IF p \in KeysWithPrefix(data, scope) THEN Absent ELSE data[p]]
\* variant: the snapshot keeps the prefixed keys
CapturedWithPrefix(data, scope) ==
    {<<p, data[p]>> : p \in KeysWithPrefix(data, scope)}

\* the Map that snapshot() builds: the de-prefixed entries of the scope
Captured(data, scope) ==
    {<<Substring(p, Len(Prefix(scope))), data[p]>> : p \in KeysWithPrefix(data, scope)}
\* variant: restore() replays the entries without clearing the scope first
RestoredWithoutClear(data, scope, entries) ==
    [p \in StoreKeys |->
        IF \E e \in entries : GetScopedKey(scope, e[1]) = p
        THEN (CHOOSE e \in entries : GetScopedKey(scope, e[1]) = p)[2]
        ELSE data[p]]

\* the data after restore() has cleared the scope and replayed the entries
Restored(data, scope, entries) ==
    [p \in StoreKeys |->
        IF \E e \in entries : GetScopedKey(scope, e[1]) = p
        THEN (CHOOSE e \in entries : GetScopedKey(scope, e[1]) = p)[2]
        ELSE Cleared(data, scope)[p]]

NoSnapshot == [taken |-> FALSE, entries |-> {}]
NoScript == [pc |-> 0, scope |-> <<>>, key |-> <<>>, value |-> Absent, name |-> ""]

\* the operations callers make before the scripted sequence starts
\* the record of a call on the view of `scope` that returned `value`
Call(op, scope, value) == [op |-> op, scope |-> scope, value |-> value]

Free == script.pc = 0 /\ storeOps < MaxStoreOps
Count == storeOps' = storeOps + 1 /\ UNCHANGED script

\* ScopedTestData.set(key, value)
ScopedSet(scope, key, value) ==
    /\ storeData' = [storeData EXCEPT ![GetScopedKey(scope, key)] = value]
    /\ ret' = Call("set", scope, "void")
    /\ UNCHANGED snapshots

\* ScopedTestData.delete(key)
ScopedDelete(scope, key) ==
    /\ storeData' = [storeData EXCEPT ![GetScopedKey(scope, key)] = Absent]
    /\ ret' = Call("delete", scope,
                   IF storeData[GetScopedKey(scope, key)] # Absent THEN "true" ELSE "false")
    /\ UNCHANGED snapshots

\* ScopedTestData.clear()
ScopedClear(scope) ==
    /\ storeData' = Cleared(storeData, scope)
    /\ ret' = Call("clear", scope, "void")
    /\ UNCHANGED snapshots

\* ScopedTestData.snapshot(name)
ScopedSnapshot(scope, name) ==
    /\ snapshots' = [snapshots EXCEPT ![scope][name] =
                        [taken |-> TRUE, entries |-> Captured(storeData, scope)]]
    /\ ret' = Call("snapshot", scope, "void")
    /\ UNCHANGED storeData

\* variant: restore() of an unknown name clears the scope before giving up
ScopedRestoreClearsFirst(scope, name) ==
    /\ IF ~snapshots[scope][name].taken
       THEN ret' = Call("restore", scope, "false") /\ storeData' = Cleared(storeData, scope)
       ELSE /\ storeData' = Restored(storeData, scope, snapshots[scope][name].entries)
            /\ ret' = Call("restore", scope, "true")
    /\ UNCHANGED snapshots

\* ScopedTestData.restore(name)
ScopedRestore(scope, name) ==
    /\ IF ~snapshots[scope][name].taken
       THEN ret' = Call("restore", scope, "false") /\ UNCHANGED storeData
       ELSE /\ storeData' = Restored(storeData, scope, snapshots[scope][name].entries)
            /\ ret' = Call("restore", scope, "true")
    /\ UNCHANGED snapshots

\* TestDataStore.set(key, value) on a key outside every scope
StoreSet(key, value) ==
    /\ storeData' = [storeData EXCEPT ![key] = value]
    /\ ret' = Call("store.set", <<>>, "void")
    /\ UNCHANGED snapshots

\* TestDataStore.clear()
StoreClear ==
    /\ storeData' = [p \in StoreKeys |-> Absent]
    /\ ret' = Call("store.clear", <<>>, "void")
    /\ UNCHANGED snapshots

\* the test `set(k, v); snapshot(s); delete(k); restore(s)` on one view: the
\* four calls are synchronous and follow each other without yielding
ScriptSet(scope, key, value, name) ==
    /\ script.pc = 0
    /\ ScopedSet(scope, key, value)
    /\ script' = [pc |-> 1, scope |-> scope, key |-> key, value |-> value, name |-> name]
    /\ UNCHANGED storeOps

ScriptSnapshot ==
    /\ script.pc = 1
    /\ ScopedSnapshot(script.scope, script.name)
    /\ script' = [script EXCEPT !.pc = 2]
    /\ UNCHANGED storeOps

ScriptDelete ==
    /\ script.pc = 2
    /\ ScopedDelete(script.scope, script.key)
    /\ script' = [script EXCEPT !.pc = 3]
    /\ UNCHANGED storeOps

ScriptRestore ==
    /\ script.pc = 3
    /\ ScopedRestore(script.scope, script.name)
    /\ script' = [script EXCEPT !.pc = 4]
    /\ UNCHANGED storeOps

InitStore ==
    /\ storeData = [p \in StoreKeys |-> Absent]
    /\ snapshots = [sc \in Scopes |-> [n \in SnapNames |-> NoSnapshot]]
    /\ ret = Call("none", <<>>, "void")
    /\ script = NoScript
    /\ storeOps = 0

NextStore ==
    /\ \/ \E sc \in Scopes, k \in UserKeys, v \in Values : Free /\ Count /\ ScopedSet(sc, k, v)
       \/ \E sc \in Scopes, k \in UserKeys : Free /\ Count /\ ScopedDelete(sc, k)
       \/ \E sc \in Scopes : Free /\ Count /\ ScopedClear(sc)
       \/ \E sc \in Scopes, n \in SnapNames : Free /\ Count /\ ScopedSnapshot(sc, n)
       \/ \E sc \in Scopes, n \in SnapNames : Free /\ Count /\ ScopedRestore(sc, n)
       \/ \E k \in RawKeys, v \in Values : Free /\ Count /\ StoreSet(k, v)
       \/ Free /\ Count /\ StoreClear
       \/ \E sc \in Scopes, k \in UserKeys, v \in Values, n \in SnapNames :
             ScriptSet(sc, k, v, n)
       \/ ScriptSnapshot
       \/ ScriptDelete
       \/ ScriptRestore
    /\ UNCHANGED <<httpVars, factoryVars, cleanupVars, adapterVars, uniqueVars, registryVars, headerVars, concurrentVars, contextVars, hookVars>>

(***************************************************************************)
(* TestDataStore: the cleanup-handler registry                             *)
(***************************************************************************)
\* what a registered handler does when it is called: it returns a promise
\* that resolves, returns a promise that rejects, or throws synchronously
HandlerKinds == {"resolves", "rejects", "throws"}

NoRun == [pc |-> "idle", i |-> 0, log |-> <<>>, registered |-> 0, calls |-> 0]

RECURSIVE Advance(_, _, _)
\* variant: the error of a throwing handler leaves runCleanup
AdvanceRethrow(handlers, i, log) ==
    IF i > Len(handlers) THEN [pc |-> "resolved", i |-> i, log |-> log]
    ELSE IF handlers[i] = "throws"
    THEN [pc |-> "rejected", i |-> i, log |-> log \o <<(<<"call", i>>), (<<"settled", i>>)>>]
    ELSE [pc |-> "await", i |-> i, log |-> Append(log, <<"call", i>>)]

\* the loop of runCleanup from handler i up to its next await: a handler that
\* throws is caught and the loop goes on without yielding; the iterator of
\* the array sees the handlers pushed while the loop runs
Advance(handlers, i, log) ==
    IF i > Len(handlers) THEN [pc |-> "resolved", i |-> i, log |-> log]
    ELSE IF handlers[i] = "throws"
    THEN Advance(handlers, i + 1, log \o <<(<<"call", i>>), (<<"settled", i>>)>>)
    ELSE [pc |-> "await", i |-> i, log |-> Append(log, <<"call", i>>)]

\* onCleanup(handler)
OnCleanup(h) ==
    /\ Len(cleanupHandlers) < MaxHandlers
    /\ cleanupHandlers' = Append(cleanupHandlers, h)
    /\ UNCHANGED run

\* runCleanup() up to its first await
RunCleanup ==
    /\ run.pc \in {"idle", "resolved"}
    /\ run.calls < MaxCleanupRuns
    /\ LET a == Advance(cleanupHandlers, 1, <<>>) IN
       run' = [pc |-> a.pc, i |-> a.i, log |-> a.log,
               registered |-> Len(cleanupHandlers), calls |-> run.calls + 1]
    /\ UNCHANGED cleanupHandlers

\* the promise of the awaited handler settles: a rejection is caught and
\* logged, and the loop goes on
HandlerSettles ==
    /\ run.pc = "await"
    /\ LET a == Advance(cleanupHandlers, run.i + 1, Append(run.log, <<"settled", run.i>>)) IN
       run' = [run EXCEPT !.pc = a.pc, !.i = a.i, !.log = a.log]
    /\ UNCHANGED cleanupHandlers

InitCleanup ==
    /\ cleanupHandlers = <<>>
    /\ run = NoRun

NextCleanup ==
    /\ \/ \E h \in HandlerKinds : OnCleanup(h)
       \/ RunCleanup
       \/ HandlerSettles
    /\ UNCHANGED <<httpVars, factoryVars, storeVars, adapterVars, uniqueVars, registryVars, headerVars, concurrentVars, contextVars, hookVars>>

(***************************************************************************)
(* The registry of stores: getTestStore, clearTestStore,                   *)
(* cleanupAllTestStores and the ScopedTestData constructor                 *)
(***************************************************************************)
Levels == {"test", "suite"}
\* the code that asks the registry for a store: two direct callers of
\* getTestStore and one ScopedTestData view of scope "a"
DirectHolders == {"h1", "h2"}
Holders == DirectHolders \cup {"view"}
\* the one entry the holders write and read: the view calls set("k", v), the
\* direct callers use the same physical key "a:k"
SharedKey == GetScopedKey(<<"a">>, <<"k">>)
RegistryKeys == {SharedKey}
EmptyData == [p \in RegistryKeys |-> Absent]
DataMaps == [RegistryKeys -> Values \cup {Absent}]

\* the handlers registered through the registry's stores: one whose promise
\* is awaited and one that throws synchronously
RegisteredKinds == {"resolves", "throws"}

\* Map.get of a level that has no store
NoStore == 0
NoHold == [level |-> "none", store |-> NoStore]
NoSweep == [pc |-> "idle", started |-> {}, calls |-> <<>>]

\* new TestDataStore(isolationLevel)
NewTestDataStore(level) == [level |-> level, data |-> EmptyData, handlers |-> <<>>]

\* variant: every request builds a fresh store
RegisteredAlwaysNew(level) == Len(heap) + 1

\* getTestStore: the identity of the store it returns, a new one when the
\* Map has no entry for the level
Registered(level) ==
    IF stores[level] = NoStore THEN Len(heap) + 1 ELSE stores[level]

\* the stores the Map holds, `stores.values()`
RegisteredIds == {stores[l] : l \in Levels} \ {NoStore}

\* variant: clear() also forgets the handlers
StoreClearedWithHandlers(s) == [s EXCEPT !.data = EmptyData, !.handlers = <<>>]

\* TestDataStore.clear()
StoreCleared(s) == [s EXCEPT !.data = EmptyData]

\* TestDataStore.restore(snapshot): clear, then set every entry of the snapshot
StoreRestored(s, snapshot) ==
    [StoreCleared(s) EXCEPT !.data = [p \in RegistryKeys |->
        IF snapshot[p] # Absent THEN snapshot[p] ELSE @[p]]]

\* runCleanup() of a store up to its first await
StartRun(handlers, calls) ==
    LET a == Advance(handlers, 1, <<>>) IN
    [pc |-> a.pc, i |-> a.i, log |-> a.log,
     registered |-> Len(handlers), calls |-> calls + 1]

RECURSIVE SumOver(_, _)
SumOver(f, ids) ==
    IF ids = {} THEN 0
    ELSE LET id == CHOOSE x \in ids : TRUE IN f[id] + SumOver(f, ids \ {id})
\* handlers registered on the stores so far, and runCleanup() calls made so far
TotalRegistered == SumOver([id \in DOMAIN heap |-> Len(heap[id].handlers)], DOMAIN heap)
TotalRuns == SumOver([id \in DOMAIN storeRuns |-> storeRuns[id].calls], DOMAIN storeRuns)

\* what a holder reads: store.get("a:k") / view.get("k")
HolderGet(h) == heap[held[h].store].data[SharedKey]

\* getTestStore(level) by holder h; the ScopedTestData constructor makes the
\* same call and keeps the result in its `store` field
GetTestStore(h, level) ==
    /\ held[h] = NoHold
    /\ LET id == Registered(level) IN
       /\ heap' = IF id > Len(heap) THEN Append(heap, NewTestDataStore(level)) ELSE heap
       /\ storeRuns' = IF id > Len(heap) THEN Append(storeRuns, NoRun) ELSE storeRuns
       /\ stores' = [stores EXCEPT ![level] = id]
       /\ held' = [held EXCEPT ![h] = [level |-> level, store |-> id]]
    /\ UNCHANGED sweep

\* new ScopedTestData("a", level)
NewScopedTestData(level) == GetTestStore("view", level)

\* store.set("a:k", v) / view.set("k", v)
HolderSet(h, v) ==
    /\ held[h] # NoHold
    /\ heap' = [heap EXCEPT ![held[h].store].data[SharedKey] = v]
    /\ UNCHANGED <<stores, held, storeRuns, sweep>>

\* store.clear() through a reference
HolderClear(h) ==
    /\ h \in DirectHolders
    /\ held[h] # NoHold
    /\ heap' = [heap EXCEPT ![held[h].store] = StoreCleared(@)]
    /\ UNCHANGED <<stores, held, storeRuns, sweep>>

\* store.restore(snapshot) through a reference
HolderRestore(h, snapshot) ==
    /\ h \in DirectHolders
    /\ held[h] # NoHold
    /\ heap' = [heap EXCEPT ![held[h].store] = StoreRestored(@, snapshot)]
    /\ UNCHANGED <<stores, held, storeRuns, sweep>>

\* store.onCleanup(handler) through a reference
HolderOnCleanup(h, kind) ==
    /\ h \in DirectHolders
    /\ held[h] # NoHold
    /\ TotalRegistered < MaxRegistered
    /\ heap' = [heap EXCEPT ![held[h].store].handlers = Append(@, kind)]
    /\ UNCHANGED <<stores, held, storeRuns, sweep>>

\* store.runCleanup() through a reference, up to its first await
HolderRunCleanup(h) ==
    /\ h \in DirectHolders
    /\ held[h] # NoHold
    /\ LET id == held[h].store IN
       /\ storeRuns[id].pc \in {"idle", "resolved"}
       /\ TotalRuns < MaxCleanupRuns
       /\ storeRuns' = [storeRuns EXCEPT ![id] = StartRun(heap[id].handlers, @.calls)]
    /\ UNCHANGED <<heap, stores, held, sweep>>

\* the promise of the handler a run awaits settles
StoreHandlerSettles(id) ==
    /\ storeRuns[id].pc = "await"
    /\ LET a == Advance(heap[id].handlers, storeRuns[id].i + 1,
                        Append(storeRuns[id].log, <<"settled", storeRuns[id].i>>)) IN
       storeRuns' = [storeRuns EXCEPT ![id].pc = a.pc, ![id].i = a.i, ![id].log = a.log]
    /\ UNCHANGED <<heap, stores, held, sweep>>

\* clearTestStore(level)
ClearTestStore(level) ==
    /\ heap' = IF stores[level] # NoStore
               THEN [heap EXCEPT ![stores[level]] = StoreCleared(@)]
               ELSE heap
    /\ UNCHANGED <<stores, held, storeRuns, sweep>>

\* variant: the stores are cleared without awaiting the runs
SweepSettledNoAwait(s, runs) == TRUE

\* Promise.allSettled(cleanupPromises) has resolved: every runCleanup() call
\* the sweep made (the call numbered s.calls[id] of store id) has settled
SweepSettled(s, runs) ==
    \A id \in s.started : runs[id].pc = "resolved" \/ runs[id].calls > s.calls[id]

\* cleanupAllTestStores() up to `await Promise.allSettled(...)`: runCleanup()
\* is called on every store of the Map
CleanupAllTestStores ==
    /\ sweep.pc = "idle"
    /\ \A id \in RegisteredIds : storeRuns[id].pc \in {"idle", "resolved"}
    /\ TotalRuns + Cardinality(RegisteredIds) <= MaxCleanupRuns
    /\ storeRuns' = [id \in DOMAIN storeRuns |->
          IF id \in RegisteredIds
          THEN StartRun(heap[id].handlers, storeRuns[id].calls)
          ELSE storeRuns[id]]
    /\ sweep' = [pc |-> "awaiting", started |-> RegisteredIds,
                 calls |-> [id \in DOMAIN storeRuns |-> storeRuns[id].calls + 1]]
    /\ UNCHANGED <<heap, stores, held>>

\* cleanupAllTestStores() after the await: every run it started has settled,
\* and every store the Map holds by now is cleared
CleanupAllSettled ==
    /\ sweep.pc = "awaiting"
    /\ SweepSettled(sweep, storeRuns)
    /\ heap' = [id \in DOMAIN heap |->
          IF id \in RegisteredIds THEN StoreCleared(heap[id]) ELSE heap[id]]
    /\ sweep' = NoSweep
    /\ UNCHANGED <<stores, held, storeRuns>>

InitRegistry ==
    /\ heap = <<>>
    /\ stores = [l \in Levels |-> NoStore]
    /\ held = [h \in Holders |-> NoHold]
    /\ storeRuns = <<>>
    /\ sweep = NoSweep

\* the registry as the holders of stores use it: three holders over two
\* levels write, clear and restore entries; no handler is registered
NextRegistry ==
    /\ \/ \E h \in DirectHolders, l \in Levels : GetTestStore(h, l)
       \/ \E l \in Levels : NewScopedTestData(l)
       \/ \E h \in Holders, v \in Values : HolderSet(h, v)
       \/ \E h \in Holders : HolderClear(h)
       \/ \E h \in Holders, m \in DataMaps : HolderRestore(h, m)
       \/ \E l \in Levels : ClearTestStore(l)
       \/ CleanupAllTestStores
       \/ CleanupAllSettled
    /\ UNCHANGED <<httpVars, factoryVars, storeVars, cleanupVars, adapterVars, uniqueVars, headerVars, concurrentVars, contextVars, hookVars>>

\* the values and snapshots the callers of NextSweep write
SweepValues == {"v1"}
SweepMaps == [RegistryKeys -> SweepValues \cup {Absent}]

\* the registry as cleanup code uses it: two direct callers register
\* handlers, run them and clean all stores up, while entries are written,
\* cleared and restored
NextSweep ==
    /\ \/ \E h \in DirectHolders, l \in Levels : GetTestStore(h, l)
       \/ \E h \in DirectHolders, v \in SweepValues : HolderSet(h, v)
       \/ \E h \in DirectHolders : HolderClear(h)
       \/ \E h \in DirectHolders, m \in SweepMaps : HolderRestore(h, m)
       \/ \E h \in DirectHolders, kind \in RegisteredKinds : HolderOnCleanup(h, kind)
       \/ \E h \in DirectHolders : HolderRunCleanup(h)
       \/ \E id \in DOMAIN heap : StoreHandlerSettles(id)
       \/ \E l \in Levels : ClearTestStore(l)
       \/ CleanupAllTestStores
       \/ CleanupAllSettled
    /\ UNCHANGED <<httpVars, factoryVars, storeVars, cleanupVars, adapterVars, uniqueVars, headerVars, concurrentVars, contextVars, hookVars>>

(***************************************************************************)
(* vitest integration: session clients and test contexts                   *)
(***************************************************************************)
MaxSessionRequests == 2

\* `context-${Date.now()}-${Math.random()}`: a string no other call produces
ContextId(c) == "context-" \o c
\* `session-${Date.now()}-${Math.random()}`
GeneratedSession == "session-1"
\* session(jarKey?): jarKey || generated
SessionKey(keyArg) ==
    IF keyArg = Undefined \/ keyArg = "" THEN GeneratedSession ELSE keyArg
SessionKeys == {"A", GeneratedSession} \cup {ContextId(c) : c \in DirectHolders}

\* a client that HttpTestClient.session() has not made yet, and the fields of
\* a new one: its own cookie map (its entry of the session key) and history
NoClient == [made |-> FALSE, cookie |-> NoCookie, requestHistory |-> <<>>,
             pc |-> "idle", sent |-> NoCookie]
NewClient == [NoClient EXCEPT !.made = TRUE]
\* the cookieJars map of a session client
ClientJars(k) == [x \in {k} |-> sessionClients[k].cookie]
\* Map.get on the cookie map of the parent
GetCookies(jars, key) == IF key \in DOMAIN jars THEN jars[key] ELSE NoCookie

\* the requests made through the session clients so far
SessionRequestsMade ==
    SumOver([k \in SessionKeys |-> Len(sessionClients[k].requestHistory)
                                    + (IF sessionClients[k].pc = "race" THEN 1 ELSE 0)],
            SessionKeys)
\* the answers of the application to them
SessionResponses == {r \in Responses : r.status = 200}

NoContext == [pc |-> "none", contextId |-> "", wrote |-> FALSE]

\* httpClient.session(jarKey)
Session(keyArg) ==
    /\ ~sessionClients[SessionKey(keyArg)].made
    /\ sessionClients' = [sessionClients EXCEPT ![SessionKey(keyArg)] = NewClient]
    /\ UNCHANGED <<contexts, httpVars, registryVars>>

\* request() on the session client of key k, without options: the cookie
\* jar is options.cookieJar of the client, its session key
SessionRequest(k) ==
    /\ sessionClients[k].made
    /\ sessionClients[k].pc = "idle"
    /\ SessionRequestsMade < MaxSessionRequests
    /\ sessionClients' = [sessionClients EXCEPT ![k].pc = "race",
                             ![k].sent = PrepareCookieHeader(ClientJars(k), k, NoCookie)]
    /\ UNCHANGED <<contexts, httpVars, registryVars>>

\* the application answers the request of the session client
SessionResponds(k, resp) ==
    /\ sessionClients[k].pc = "race"
    /\ sessionClients' = [sessionClients EXCEPT ![k].pc = "idle",
                             ![k].cookie = HandleResponse(ClientJars(k), k, resp)[k],
                             ![k].requestHistory = Append(@, resp)]
    /\ UNCHANGED <<contexts, httpVars, registryVars>>

\* createTestContext(isolationLevel) called by test c
CreateTestContext(c, level) ==
    /\ contexts[c].pc = "none"
    /\ GetTestStore(c, level)
    /\ contexts' = [contexts EXCEPT ![c] = [pc |-> "running", contextId |-> ContextId(c),
                                            wrote |-> FALSE]]
    /\ sessionClients' = [sessionClients EXCEPT ![ContextId(c)] = NewClient]
    /\ UNCHANGED httpVars

\* ctx.store.set(key, value) in the body of test c
ContextSet(c, v) ==
    /\ contexts[c].pc = "running"
    /\ HolderSet(c, v)
    /\ contexts' = [contexts EXCEPT ![c].wrote = TRUE]
    /\ UNCHANGED <<sessionClients, httpVars>>

\* variant: the cleanup clears the cookies of the client of the context
ContextCleanupOwnClient(c) ==
    /\ contexts[c].pc = "running"
    /\ HolderClear(c)
    /\ sessionClients' = [sessionClients EXCEPT ![contexts[c].contextId].cookie = NoCookie]
    /\ contexts' = [contexts EXCEPT ![c].pc = "cleaned"]
    /\ UNCHANGED httpVars

\* ctx.cleanup() of test c: store.clear() on the store of the level, then
\* clearCookies(contextId) on the module-level client
ContextCleanup(c) ==
    /\ contexts[c].pc = "running"
    /\ HolderClear(c)
    /\ ClearCookies(contexts[c].contextId)
    /\ contexts' = [contexts EXCEPT ![c].pc = "cleaned"]
    /\ UNCHANGED sessionClients

InitContext ==
    /\ sessionClients = [k \in SessionKeys |-> NoClient]
    /\ contexts = [c \in DirectHolders |-> NoContext]

\* two tests run by testWithContext at the same time: each creates its
\* context, writes to the store of its level, makes requests through ctx.http
\* and cleans up in the `finally` of its test
NextContext ==
    /\ \/ \E c \in DirectHolders, l \in Levels : CreateTestContext(c, l)
       \/ \E c \in DirectHolders, v \in Values : ContextSet(c, v)
       \/ \E c \in DirectHolders : SessionRequest(ContextId(c))
       \/ \E c \in DirectHolders, resp \in SessionResponses :
             SessionResponds(ContextId(c), resp)
       \/ \E c \in DirectHolders : ContextCleanup(c)
    /\ UNCHANGED <<factoryVars, storeVars, cleanupVars, adapterVars, uniqueVars, headerVars, concurrentVars, hookVars>>

\* the module-level client and the clients made from it: a session client of
\* key "A", one of a generated key and the client of the context of test h1
NextSessionClient ==
    /\ \/ \E k \in {Undefined, "A"} : Session(k)
       \/ CreateTestContext("h1", "test")
       \/ \E k \in SessionKeys : SessionRequest(k)
       \/ \E k \in SessionKeys, resp \in SessionResponses : SessionResponds(k, resp)
       \/ \E k \in {Undefined, "A"} :
             Request("t1", k, NoCookie, 0, NoExpected) /\ UNCHANGED <<registryVars, contextVars>>
       \/ \E d \in inflight, resp \in Responses :
             AppResponds(d, resp) /\ UNCHANGED <<registryVars, contextVars>>
       \/ \E k \in {Undefined, "A"} : ClearCookies(k) /\ UNCHANGED <<registryVars, contextVars>>
       \/ ContextCleanup("h1")
    /\ UNCHANGED <<factoryVars, storeVars, cleanupVars, adapterVars, uniqueVars, headerVars, concurrentVars, hookVars>>

(***************************************************************************)
(* vitest integration: the hooks installed by setupTestFramework           *)
(***************************************************************************)
MaxTests == 2

\* config.isolation
Isolations == {"test", "suite", "none"}
NoHooks == [pc |-> "unset", isolation |-> "none", autoCleanup |-> FALSE, test |-> 0,
            kept |-> [l \in Levels |-> EmptyData]]

\* the entries of the store of a level; a level without store has none
LevelData(l) == IF stores[l] = NoStore THEN EmptyData ELSE heap[stores[l]].data

\* setupTestFramework(undefined, {isolation, autoCleanup}): no application and
\* no seeded data, so the hooks find no httpClient and no dataFactory
SetupTestFramework(isolation, autoCleanup) ==
    /\ hooks.pc = "unset"
    /\ hooks' = [hooks EXCEPT !.pc = "between", !.isolation = isolation,
                              !.autoCleanup = autoCleanup]
    /\ UNCHANGED registryVars

\* beforeEach: getTestStore(config.isolation).clear() for 'test' and 'suite'
BeforeEach ==
    /\ hooks.pc = "between"
    /\ hooks.test < MaxTests
    /\ IF hooks.isolation \in {"test", "suite"}
       THEN LET id == Registered(hooks.isolation) IN
            /\ heap' = IF id > Len(heap)
                       THEN Append(heap, NewTestDataStore(hooks.isolation))
                       ELSE [heap EXCEPT ![id] = StoreCleared(@)]
            /\ storeRuns' = IF id > Len(heap) THEN Append(storeRuns, NoRun) ELSE storeRuns
            /\ stores' = [stores EXCEPT ![hooks.isolation] = id]
       ELSE UNCHANGED <<heap, storeRuns, stores>>
    /\ hooks' = [hooks EXCEPT !.pc = "test", !.test = @ + 1]
    /\ UNCHANGED <<held, sweep>>

\* the body of the test: it asks for stores and writes entries
TestGetsStore(h, level) ==
    /\ hooks.pc = "test"
    /\ GetTestStore(h, level)
    /\ UNCHANGED hooks
TestSets(h, v) ==
    /\ hooks.pc = "test"
    /\ HolderSet(h, v)
    /\ UNCHANGED hooks

\* the test body is over and afterEach starts: without autoCleanup it only
\* restores the mocks; with it, it first awaits dbAdapter.cleanup(), whose
\* failure is caught
AfterEach ==
    /\ hooks.pc = "test"
    /\ hooks' = [hooks EXCEPT !.pc = IF hooks.autoCleanup THEN "afterEach" ELSE "between",
                              !.kept = [l \in Levels |-> LevelData(l)]]
    /\ UNCHANGED registryVars

\* afterEach after dbAdapter.cleanup() settled: cleanupAllTestStores() is
\* called and awaited
AfterEachCleansStores ==
    /\ hooks.pc = "afterEach"
    /\ CleanupAllTestStores
    /\ hooks' = [hooks EXCEPT !.pc = "sweeping"]
AfterEachDone ==
    /\ hooks.pc = "sweeping"
    /\ CleanupAllSettled
    /\ hooks' = [hooks EXCEPT !.pc = "between"]

InitHooks == hooks = NoHooks

\* the tests of one file run one after the other under the hooks
NextHooks ==
    /\ \/ \E i \in Isolations, a \in BOOLEAN : SetupTestFramework(i, a)
       \/ BeforeEach
       \/ \E h \in DirectHolders, l \in Levels : TestGetsStore(h, l)
       \/ \E h \in DirectHolders, v \in Values : TestSets(h, v)
       \/ AfterEach
       \/ AfterEachCleansStores
       \/ AfterEachDone
    /\ UNCHANGED <<httpVars, factoryVars, storeVars, cleanupVars, adapterVars, uniqueVars, headerVars, concurrentVars, contextVars>>

(***************************************************************************)
(* DatabaseAdapter variants (adapters/database.ts)                         *)
(***************************************************************************)
Variants == {"memory", "sqlite", "d1", "drizzle-sqlite", "drizzle-d1"}
\* the concrete adapter that does the work: the Drizzle adapters delegate
\* every operation to the adapter they wrap
Backend(type) ==
    IF type = "memory" THEN "memory"
    ELSE IF type \in {"sqlite", "drizzle-sqlite"} THEN "sqlite" ELSE "d1"

\* the entries of the in-memory adapter's maps
MemKeys == {"k1", "k2"}
MemValues == {"v1", "v2"}
EmptyMap == [k \in MemKeys |-> Absent]

\* the user tables of the database, in the order the catalog query lists them
Catalog == <<"users", "posts", "tags">>
Tables == {Catalog[i] : i \in 1..Len(Catalog)}
NoRows == [t \in Tables |-> FALSE]

\* the value of `db` after construction: the Map of the in-memory adapter,
\* undefined until initialize() for the SQLite adapter, and for the D1 adapter
\* the binding the caller passed, which may be missing
InitialHandles(type) ==
    IF Backend(type) = "memory" THEN {"map"}
    ELSE IF Backend(type) = "sqlite" THEN {"undefined"}
    ELSE {"bound", "undefined"}

\* `!this.db`
Falsy(db) == db \in {"undefined", "null"}
\* the handle executes statements: an open better-sqlite3 connection or a D1
\* binding; "shut" is a connection object that was closed underneath the adapter
Serves(db) == db \in {"map", "open", "bound"}

NoCall == [op |-> "none", outcome |-> "resolved", value |-> FALSE,
           failing |-> {}, attempted |-> FALSE, before |-> EmptyMap]
\* the record of a call of `op` that settled with `outcome`
Settled(op, outcome, value, failing, attempted, before) ==
    [op |-> op, outcome |-> outcome, value |-> value,
     failing |-> failing, attempted |-> attempted, before |-> before]

\* position in the catalog of the first table whose DELETE fails
FirstFailing(failing) ==
    IF \E i \in 1..Len(Catalog) : Catalog[i] \in failing
    THEN CHOOSE i \in 1..Len(Catalog) :
            /\ Catalog[i] \in failing
            /\ \A j \in 1..(i - 1) : Catalog[j] \notin failing
    ELSE Len(Catalog) + 1

\* variant: cleanup() has no try/catch around its statements
SqlCleanupNoCatch(a, catalogFails, failing) ==
    IF Falsy(a.db)
    THEN [rows |-> a.rows, fk |-> a.fk, outcome |-> "resolved", attempted |-> FALSE]
    ELSE IF ~Serves(a.db) \/ catalogFails
    THEN [rows |-> a.rows, fk |-> a.fk, outcome |-> "rejected", attempted |-> FALSE]
    ELSE LET n == FirstFailing(failing) IN
         [rows |-> [t \in Tables |->
                      IF \E i \in 1..(n - 1) : Catalog[i] = t THEN FALSE ELSE a.rows[t]],
          fk |-> IF Backend(a.type) = "sqlite" THEN n > Len(Catalog) ELSE a.fk,
          outcome |-> IF n > Len(Catalog) THEN "resolved" ELSE "rejected",
          attempted |-> TRUE]

\* cleanup() of the SQLite and D1 adapters: the catalog query, the pragmas
\* and the loop of DELETE statements are inside one try block, so the first
\* statement that throws ends the loop and the catch block logs a warning
SqlCleanup(a, catalogFails, failing) ==
    IF Falsy(a.db)
    THEN [rows |-> a.rows, fk |-> a.fk, outcome |-> "resolved", attempted |-> FALSE]
    ELSE IF ~Serves(a.db) \/ catalogFails
    THEN [rows |-> a.rows, fk |-> a.fk, outcome |-> "resolved", attempted |-> FALSE]
    ELSE LET n == FirstFailing(failing) IN
         [rows |-> [t \in Tables |->
                      IF \E i \in 1..(n - 1) : Catalog[i] = t THEN FALSE ELSE a.rows[t]],
          fk |-> IF Backend(a.type) = "sqlite" THEN n > Len(Catalog) ELSE a.fk,
          outcome |-> "resolved",
          attempted |-> TRUE]

\* variant: reset() of the in-memory adapter leaves the live map empty
MemResetEmpty(a) == EmptyMap

\* the live map after reset() of the in-memory adapter: cleared, then every
\* entry of initialData set again
MemReset(a) == [k \in MemKeys |-> a.initialData[k]]

\* variant: isReady() has no try/catch around its probe
ProbeNoCatch(a, probeFails) ==
    IF Backend(a.type) = "memory" THEN [outcome |-> "resolved", value |-> TRUE]
    ELSE IF Backend(a.type) = "sqlite"
    THEN [outcome |-> "resolved", value |-> (~Falsy(a.db) /\ a.db = "open")]
    ELSE IF a.db = "bound" /\ ~probeFails
    THEN [outcome |-> "resolved", value |-> TRUE]
    ELSE [outcome |-> "rejected", value |-> FALSE]

\* isReady(): `true` for the in-memory adapter, `!!this.db && this.db.open`
\* for SQLite, and for D1 whether `SELECT 1` ran without throwing
Probe(a, probeFails) ==
    IF Backend(a.type) = "memory" THEN [outcome |-> "resolved", value |-> TRUE]
    ELSE IF Backend(a.type) = "sqlite"
    THEN [outcome |-> "resolved", value |-> (~Falsy(a.db) /\ a.db = "open")]
    ELSE IF a.db = "bound" /\ ~probeFails
    THEN [outcome |-> "resolved", value |-> TRUE]
    ELSE [outcome |-> "resolved", value |-> FALSE]

\* initialize(); `failure` is the statement of the SQLite adapter that throws:
\* the import or the constructor, or one of the pragmas (after db was assigned)
Initialize(failure) ==
    LET a == adapter IN
    /\ Backend(a.type) # "sqlite" => failure = "none"
    /\ IF Backend(a.type) = "memory"
       THEN /\ adapter' = [a EXCEPT !.initialData = a.live, !.life = "initialized"]
            /\ adapterS0' = a.live
            /\ adapterRet' = Settled("initialize", "resolved", FALSE, {}, FALSE, a.live)
       ELSE IF Backend(a.type) = "sqlite"
       THEN /\ adapter' = [a EXCEPT
                  !.db = IF failure = "import" THEN a.db ELSE "open",
                  !.fk = IF failure = "none" THEN TRUE ELSE a.fk,
                  !.life = IF failure = "none" THEN "initialized" ELSE a.life]
            /\ adapterRet' = Settled("initialize",
                                 IF failure = "none" THEN "resolved" ELSE "rejected",
                                 FALSE, {}, FALSE, a.live)
            /\ UNCHANGED adapterS0
       ELSE /\ adapter' = [a EXCEPT !.life = IF Falsy(a.db) THEN a.life ELSE "initialized"]
            /\ adapterRet' = Settled("initialize",
                                 IF Falsy(a.db) THEN "rejected" ELSE "resolved",
                                 FALSE, {}, FALSE, a.live)
            /\ UNCHANGED adapterS0

\* cleanup(), and reset() of the adapters whose reset() is `await this.cleanup()`
CleanupAs(op, catalogFails, failing) ==
    LET a == adapter IN
    /\ Backend(a.type) = "memory" => (~catalogFails /\ failing = {})
    /\ IF Backend(a.type) = "memory"
       THEN /\ adapter' = [a EXCEPT !.live = EmptyMap]
            /\ adapterRet' = Settled(op, "resolved", FALSE, {}, TRUE, a.live)
       ELSE LET c == SqlCleanup(a, catalogFails, failing) IN
            /\ adapter' = [a EXCEPT !.rows = c.rows, !.fk = c.fk]
            /\ adapterRet' = Settled(op, c.outcome, FALSE, failing, c.attempted, a.live)
    /\ UNCHANGED adapterS0

Cleanup(catalogFails, failing) == CleanupAs("cleanup", catalogFails, failing)

\* reset()
Reset(catalogFails, failing) ==
    IF Backend(adapter.type) = "memory"
    THEN /\ ~catalogFails /\ failing = {}
         /\ adapter' = [adapter EXCEPT !.live = MemReset(adapter)]
         /\ adapterRet' = Settled("reset", "resolved", FALSE, {}, TRUE, adapter.live)
         /\ UNCHANGED adapterS0
    ELSE CleanupAs("reset", catalogFails, failing)

\* isReady()
IsReady(probeFails) ==
    /\ Backend(adapter.type) # "d1" => ~probeFails
    /\ LET r == Probe(adapter, probeFails) IN
       adapterRet' = Settled("isReady", r.outcome, r.value, {}, FALSE, adapter.live)
    /\ UNCHANGED <<adapter, adapterS0>>

\* variant: close() of the D1 adapter drops the binding it was given
ClosedReleasesBinding(a) ==
    IF Backend(a.type) = "memory"
    THEN [a EXCEPT !.live = EmptyMap, !.initialData = EmptyMap, !.life = "closed"]
    ELSE IF Backend(a.type) = "sqlite"
    THEN [a EXCEPT !.db = IF Falsy(a.db) THEN a.db ELSE "null", !.life = "closed"]
    ELSE [a EXCEPT !.db = "undefined", !.life = "closed"]

\* the adapter after close(): the in-memory adapter clears both maps, the
\* SQLite adapter closes the connection and sets db to null, the D1 adapter
\* does nothing
Closed(a) ==
    IF Backend(a.type) = "memory"
    THEN [a EXCEPT !.live = EmptyMap, !.initialData = EmptyMap, !.life = "closed"]
    ELSE IF Backend(a.type) = "sqlite"
    THEN [a EXCEPT !.db = IF Falsy(a.db) THEN a.db ELSE "null", !.life = "closed"]
    ELSE [a EXCEPT !.life = "closed"]

\* close(); the recorded value tells whether close() had been called before
Close ==
    LET a == adapter IN
    /\ adapter' = Closed(a)
    /\ adapterS0' = IF Backend(a.type) = "memory" THEN EmptyMap ELSE adapterS0
    /\ adapterRet' = Settled("close", "resolved", a.life = "closed", {}, FALSE, a.live)

\* a test writes into the public Map of the in-memory adapter
MemSet(k, v) ==
    /\ Backend(adapter.type) = "memory"
    /\ adapter' = [adapter EXCEPT !.live[k] = v]
    /\ adapterRet' = Settled("set", "resolved", FALSE, {}, FALSE, adapter.live)
    /\ UNCHANGED adapterS0

\* a test deletes from the public Map of the in-memory adapter
MemDelete(k) ==
    /\ Backend(adapter.type) = "memory"
    /\ adapter' = [adapter EXCEPT !.live[k] = Absent]
    /\ adapterRet' = Settled("delete", "resolved", FALSE, {}, FALSE, adapter.live)
    /\ UNCHANGED adapterS0

\* a test inserts rows into a table through a handle that serves queries
InsertRows(t) ==
    /\ Backend(adapter.type) # "memory"
    /\ Serves(adapter.db)
    /\ adapter' = [adapter EXCEPT !.rows[t] = TRUE]
    /\ adapterRet' = Settled("insert", "resolved", FALSE, {}, FALSE, adapter.live)
    /\ UNCHANGED adapterS0

\* the connection behind the public `db` field of the SQLite adapter is
\* closed without the adapter: db.open becomes false and statements throw
RawClose ==
    /\ adapter.type = "sqlite"
    /\ adapter.db = "open"
    /\ adapter' = [adapter EXCEPT !.db = "shut"]
    /\ adapterRet' = Settled("db.close", "resolved", FALSE, {}, FALSE, adapter.live)
    /\ UNCHANGED adapterS0

\* no adapter has been created yet
NoAdapter == [type |-> "none", db |-> "undefined", life |-> "none",
              live |-> EmptyMap, initialData |-> EmptyMap,
              rows |-> NoRows, fk |-> FALSE]
Constructed == adapter.type \in Variants

\* createDatabaseAdapter(provider, options): the constructor of the variant
CreateDatabaseAdapter(type, db) ==
    /\ adapter = NoAdapter
    /\ adapter' = [NoAdapter EXCEPT !.type = type, !.db = db, !.life = "constructed"]
    /\ adapterRet' = Settled("new", "resolved", FALSE, {}, FALSE, EmptyMap)
    /\ UNCHANGED adapterS0

InitAdapter ==
    /\ adapter = NoAdapter
    /\ adapterS0 = EmptyMap
    /\ adapterRet = NoCall

NextAdapter ==
    /\ \/ \E type \in Variants : \E db \in InitialHandles(type) :
             CreateDatabaseAdapter(type, db)
       \/ \E failure \in {"none", "import", "pragma"} : Constructed /\ Initialize(failure)
       \/ \E c \in BOOLEAN, f \in SUBSET Tables : Constructed /\ Cleanup(c, f)
       \/ \E c \in BOOLEAN, f \in SUBSET Tables : Constructed /\ Reset(c, f)
       \/ \E pf \in BOOLEAN : Constructed /\ IsReady(pf)
       \/ Constructed /\ Close
       \/ \E k \in MemKeys, v \in MemValues : Constructed /\ MemSet(k, v)
       \/ \E k \in MemKeys : Constructed /\ MemDelete(k)
       \/ \E t \in Tables : Constructed /\ InsertRows(t)
       \/ RawClose
    /\ UNCHANGED <<httpVars, factoryVars, storeVars, cleanupVars, uniqueVars, registryVars, headerVars, concurrentVars, contextVars, hookVars>>

(***************************************************************************)
(* core.ts: uniqueEmail and uniqueUsername                                 *)
(***************************************************************************)
\* strings are sequences of characters, so that concatenation is computed;
\* the prefixes callers pass: the defaults 'test' and 'user', and prefixes
\* that end like the text the function appends
EmailPrefixes == {<<"t", "e", "s", "t">>, <<"t", "e", "s", "t", "+", "1">>}
UsernamePrefixes == {<<"u", "s", "e", "r">>, <<"u", "s", "e", "r", "1">>}
Digits == <<"0", "1", "2", "3", "4", "5", "6", "7", "8", "9">>
EmailDomain == <<"@", "e", "x", "a", "m", "p", "l", "e", ".", "c", "o", "m">>

\* the decimal text of a counter value inside a template literal
RECURSIVE DecimalString(_)
DecimalString(n) ==
    IF n < 10 THEN <<Digits[n + 1]>>
    ELSE DecimalString(n \div 10) \o <<Digits[(n % 10) + 1]>>

\* uniqueEmail(prefix): `${prefix}+${emailCounter}@example.com`
UniqueEmail(prefix) ==
    /\ emailCounter < MaxEmailCalls
    /\ emailCounter' = emailCounter + 1
    /\ generated' = [generated EXCEPT !["uniqueEmail"] = Append(@,
           prefix \o <<"+">> \o DecimalString(emailCounter + 1) \o EmailDomain)]
    /\ UNCHANGED usernameCounter

\* uniqueUsername(prefix): `${prefix}${usernameCounter}`
UniqueUsername(prefix) ==
    /\ usernameCounter < MaxUsernameCalls
    /\ usernameCounter' = usernameCounter + 1
    /\ generated' = [generated EXCEPT !["uniqueUsername"] = Append(@,
           prefix \o DecimalString(usernameCounter + 1))]
    /\ UNCHANGED emailCounter

InitUnique ==
    /\ emailCounter = 0
    /\ usernameCounter = 0
    /\ generated = [fn \in {"uniqueEmail", "uniqueUsername"} |-> <<>>]

NextUnique ==
    /\ \/ \E p \in EmailPrefixes : UniqueEmail(p)
       \/ \E p \in UsernamePrefixes : UniqueUsername(p)
    /\ UNCHANGED <<httpVars, factoryVars, storeVars, cleanupVars, adapterVars, registryVars, headerVars, concurrentVars, contextVars, hookVars>>

(***************************************************************************)
(* HttpTestClient: assembly of the request headers                         *)
(***************************************************************************)
\* header names as callers spell them; Headers compares names without case
HeaderNames == {"X-A", "x-a", "Cookie"}
\* the name under which a Headers object keeps an entry
Lower(name) ==
    IF name = "X-A" THEN "x-a" ELSE IF name = "Cookie" THEN "cookie" ELSE name
LowerNames == {Lower(n) : n \in HeaderNames}
DefaultValues == {"d"}
\* a per-request header value; an empty value is still a value
RequestValues == {"r", ""}
\* new Headers()
NoHeaders == [n \in LowerNames |-> Absent]

\* the entry lists of length at most n over the given names and values
HeaderLists(values, n) ==
    UNION {[1..len -> HeaderNames \X values] : len \in 0..n}

RECURSIVE SetAll(_, _)
\* headers.set(key, value) for every entry, in order
SetAll(headers, entries) ==
    IF entries = <<>> THEN headers
    ELSE SetAll([headers EXCEPT ![Lower(entries[1][1])] = entries[1][2]], Tail(entries))

\* variant: the default headers are applied after the per-request ones
PrepareHeadersDefaultsLast(defaults, reqHeaders, stored) ==
    LET h == SetAll(SetAll(NoHeaders, reqHeaders), defaults) IN
    IF stored # NoCookie /\ h["cookie"] = Absent
    THEN [h EXCEPT !["cookie"] = stored] ELSE h

\* prepareHeaders: defaults, then the per-request headers, then the stored
\* cookie when there is one and the headers have no cookie entry
PrepareHeaders(defaults, reqHeaders, stored) ==
    LET h == SetAll(SetAll(NoHeaders, defaults), reqHeaders) IN
    IF stored # NoCookie /\ h["cookie"] = Absent
    THEN [h EXCEPT !["cookie"] = stored] ELSE h

NoPrepared == [key |-> Undefined, request |-> <<>>, headers |-> NoHeaders]

\* { ...this.options.defaultHeaders, ...headers } for a one-entry argument:
\* an existing key keeps its place and takes the new value, a new key goes last
Merged(defaults, name, value) ==
    IF \E i \in 1..Len(defaults) : defaults[i][1] = name
    THEN [i \in 1..Len(defaults) |->
            IF defaults[i][1] = name THEN <<name, value>> ELSE defaults[i]]
    ELSE Append(defaults, <<name, value>>)

\* setDefaultHeaders({[name]: value})
SetDefaultHeaders(name, value) ==
    /\ defaultHeaders' = Merged(defaultHeaders, name, value)
    /\ UNCHANGED <<prepared, httpVars>>

\* setCookies(jarKey, cookies)
SetCookies(key, cookies) ==
    /\ cookieJars' = [cookieJars EXCEPT ![key] = cookies]
    /\ UNCHANGED <<harness, requestHistory, jar, req, inflight, appCalls, late, lastDone>>
    /\ UNCHANGED <<defaultHeaders, prepared>>

\* the prepareHeaders(options) call of one request(path, options), made
\* after any number of setDefaultHeaders and setCookies calls
CallPrepareHeaders(keyArg, reqHeaders) ==
    /\ prepared = NoPrepared
    /\ prepared' = [key |-> keyArg, request |-> reqHeaders,
                    headers |-> PrepareHeaders(defaultHeaders, reqHeaders,
                                               cookieJars[ResolveJar(keyArg)])]
    /\ UNCHANGED <<defaultHeaders, httpVars>>

InitHeaders ==
    /\ defaultHeaders = <<>>
    /\ prepared = NoPrepared

NextHeaders ==
    /\ \/ \E n \in HeaderNames, v \in DefaultValues : SetDefaultHeaders(n, v)
       \/ \E k \in {"default", "A"}, c \in {"sid=abc", NoCookie} : SetCookies(k, c)
       \/ \E k \in KeyArgs, hs \in HeaderLists(RequestValues, MaxHeaders) :
             CallPrepareHeaders(k, hs)
    /\ UNCHANGED <<factoryVars, storeVars, cleanupVars, adapterVars, uniqueVars, registryVars, concurrentVars, contextVars, hookVars>>

(***************************************************************************)
(* Concurrent requests: the order of issue, receipt and completion, and    *)
(* the array getHistory() hands out                                        *)
(***************************************************************************)
\* the callers that take the given step in this transition, appended to the
\* order observed so far (a transition is a step of one caller)
Observed(order, stepping) ==
    IF stepping = {} THEN order
    ELSE Append(order, CHOOSE t \in stepping : TRUE)

\* an observer of the requests: it notes who issues, who receives the
\* response it awaits, and whose request settles (returns or throws)
Observe ==
    /\ issued' = Observed(issued,
          {t \in Callers : req[t].pc = "idle" /\ req'[t].pc # "idle"})
    /\ received' = Observed(received,
          {t \in Callers : /\ req[t].response = NoResponse
                           /\ req'[t].response # NoResponse})
    /\ completed' = Observed(completed,
          {t \in Callers : /\ req[t].pc \notin {"returned", "thrown"}
                           /\ req'[t].pc \in {"returned", "thrown"}})

\* an entry a test pushes onto the array it got from getHistory()
ForeignEntry == [request |-> NoCaller, response |-> NoResponse]
NoCopy == <<>>

\* getHistory(): [...this.requestHistory]
GetHistory ==
    /\ historyCopy' = requestHistory
    /\ UNCHANGED <<httpVars, issued, received, completed>>

\* push on the returned array
CopyPush ==
    /\ Len(historyCopy) <= Len(requestHistory)
    /\ historyCopy' = Append(historyCopy, ForeignEntry)
    /\ UNCHANGED <<httpVars, issued, received, completed>>

\* pop on the returned array
CopyPop ==
    /\ historyCopy # <<>>
    /\ historyCopy' = SubSeq(historyCopy, 1, Len(historyCopy) - 1)
    /\ UNCHANGED <<httpVars, issued, received, completed>>

InitConcurrent ==
    /\ issued = <<>>
    /\ received = <<>>
    /\ completed = <<>>
    /\ historyCopy = NoCopy

\* the session keys the concurrent requests use
ConcurrentKeys == {Undefined, "A"}

\* two callers issue one request each, unawaited, on the client or on the
\* legacy jar; nothing clears the jars or the history meanwhile
NextConcurrent ==
    /\ UNCHANGED <<factoryVars, storeVars, cleanupVars, adapterVars, uniqueVars,
                   registryVars, headerVars, contextVars, hookVars>>
    /\ \/ /\ \/ \E t \in Callers, k \in ConcurrentKeys :
                   \E e \in IF t = "t1" THEN ExpectedArgs ELSE {NoExpected} :
                      Request(t, k, NoCookie, 0, e)
             \/ \E t \in Callers, k \in ConcurrentKeys : RequestWithCookies(t, k, NoCookie)
             \/ \E d \in inflight, resp \in Responses : AppResponds(d, resp)
             \/ \E d \in inflight, resp \in Responses : LegacyResponds(d, resp)
             \/ \E d \in inflight : AppThrows(d, FALSE)
             \/ \E t \in Callers : StatusMismatch(t)
          /\ Observe
          /\ UNCHANGED historyCopy
       \/ GetHistory
       \/ CopyPush
       \/ CopyPop

InitHttp ==
    /\ harness \in BOOLEAN
    /\ cookieJars = [k \in JarKeys |-> NoCookie]
    /\ requestHistory = <<>>
    /\ jar = [k \in JarKeys |-> NoCookie]
    /\ req = [t \in Callers |-> IdleReq]
    /\ inflight = {}
    /\ appCalls = [t \in Callers |-> 0]
    /\ late = [t \in Callers |-> FALSE]
    /\ lastDone = [a \in {"client", "legacy"} |-> [k \in JarKeys |-> NoCaller]]

Init ==
    /\ InitHttp /\ InitFactory /\ InitStore /\ InitCleanup /\ InitAdapter /\ InitUnique
    /\ InitRegistry /\ InitHeaders /\ InitConcurrent /\ InitContext
    /\ InitHooks

SpecFactory == Init /\ [][NextFactory]_vars

SpecSessionClient == Init /\ [][NextSessionClient]_vars

SpecContext == Init /\ [][NextContext]_vars

SpecHooks == Init /\ [][NextHooks]_vars

SpecStore == Init /\ [][NextStore]_vars

SpecCleanup == Init /\ [][NextCleanup]_vars

SpecAdapter == Init /\ [][NextAdapter]_vars

SpecUnique == Init /\ [][NextUnique]_vars

SpecRegistry == Init /\ [][NextRegistry]_vars

SpecSweep == Init /\ [][NextSweep]_vars

SpecHeaders == Init /\ [][NextHeaders]_vars

SpecConcurrent == Init /\ [][NextConcurrent]_vars

\* one request() call with the whole range of its options
NextRetry ==
  /\ UNCHANGED <<factoryVars, storeVars, cleanupVars, adapterVars, uniqueVars, registryVars, headerVars, concurrentVars, contextVars, hookVars>>
  /\
    \/ \E k \in KeyArgs, x \in {NoCookie, ExplicitCookie},
          n \in 0..MaxRetries, e \in ExpectedArgs : Request("t1", k, x, n, e)
    \/ \E d \in inflight, resp \in Responses : AppResponds(d, resp)
    \/ \E d \in inflight, m \in BOOLEAN : AppThrows(d, m)
    \/ Timeout("t1")
    \/ StatusMismatch("t1")
    \/ Retry("t1")

SpecRetry == Init /\ [][NextRetry]_vars

\* the same call when timers fire: the setTimeout of the race rejects unless
\* the dispatch settles first, and the setTimeout of the backoff resolves.
\* Nothing makes the application settle a dispatch or end the body of a
\* response.
SpecRetryTimers ==
    /\ Init /\ [][NextRetry]_vars
    /\ WF_httpVars(Timeout("t1"))
    /\ WF_httpVars(Retry("t1"))

\* the timers fire and the body of every received response ends
SpecRetryBodyEnds ==
    /\ SpecRetryTimers
    /\ WF_httpVars(StatusMismatch("t1"))

\* options of the requests that run concurrently: t1 passes per-request
\* options, t2 relies on the defaults of the client
SessionRetries(t) == IF t = "t1" THEN {0, 1} ELSE {0}
SessionExpected(t) == IF t = "t1" THEN ExpectedArgs ELSE {NoExpected}
SessionCookieHeader(t) == IF t = "t1" THEN {NoCookie, ExplicitCookie} ELSE {NoCookie}

\* two callers on the shared client and on the shared legacy jar; a failed
\* attempt is a dispatch that throws (the timeout race is explored by SpecRetry)
NextSession ==
  /\ UNCHANGED <<factoryVars, storeVars, cleanupVars, adapterVars, uniqueVars, registryVars, headerVars, concurrentVars, contextVars, hookVars>>
  /\
    \/ \E t \in Callers, k \in KeyArgs :
          \E x \in SessionCookieHeader(t), n \in SessionRetries(t), e \in SessionExpected(t) :
             Request(t, k, x, n, e)
    \/ \E t \in Callers, k \in KeyArgs :
          \E x \in SessionCookieHeader(t) : RequestWithCookies(t, k, x)
    \/ \E k \in KeyArgs : RequestJSON("t1", k, NoCookie)
    \/ \E d \in inflight, resp \in Responses : AppResponds(d, resp)
    \/ \E d \in inflight, resp \in Responses : LegacyResponds(d, resp)
    \/ \E d \in inflight : AppThrows(d, FALSE)
    \/ \E t \in Callers : StatusMismatch(t)
    \/ \E t \in Callers : Retry(t)
    \/ \E k \in KeyArgs : ClearCookies(k)
    \/ \E k \in KeyArgs : ResetCookies(k)

SpecSession == Init /\ [][NextSession]_vars

(***************************************************************************)
(* Properties of HttpTestClient.request                                    *)
(***************************************************************************)
Finished(t) == req[t].pc \in {"returned", "thrown"}

\* C1: a request() call with retries = R and no status mismatch whose
\* dispatcher fails on its first k calls and then succeeds calls the
\* dispatcher exactly k+1 times and returns the response when k <= R, and
\* calls it exactly R+1 times and fails with the error of call R+1 when k > R.
C1_RetryBoundary ==
    \A t \in Callers :
       LET r == req[t] IN
       (r.api = "client" /\ Finished(t) /\ r.lastError.kind # "status") =>
          IF r.pc = "returned"
          THEN /\ r.response.call <= r.retries + 1
               /\ appCalls[t] = r.response.call
          ELSE /\ appCalls[t] = r.retries + 1
               /\ r.lastError.call = r.retries + 1

\* C2: a response whose status is not in expectedStatus ends the request:
\* the call fails with the status error carrying the status and the body of
\* that response, no backoff delay follows it, and when it is the response of
\* the first dispatcher call the dispatcher was called exactly once, whatever
\* the value of retries.
C2_StatusMismatchNotRetried ==
    \A t \in Callers :
       LET r == req[t] IN
       (r.api = "client" /\ r.lastError.kind = "status") =>
          /\ r.pc = "thrown"
          /\ r.response.status \notin r.expected.set
          /\ r.lastError.status = r.response.status
          /\ r.lastError.body = r.response.body
          /\ Len(r.delays) = r.attempt
          /\ (r.lastError.call = 1 => (appCalls[t] = 1 /\ r.attempt = 0 /\ r.delays = <<>>))

C2_Witness ==
    \E t \in Callers :
       /\ req[t].lastError.kind = "status"
       /\ req[t].lastError.call = 1
       /\ req[t].retries = MaxRetries
       /\ req[t].response.status = 500
       /\ req[t].lastError.body = "b2"

\* C4: the response of a dispatch that lost the timeout race (its request has
\* failed, returned, or moved on to a later attempt) changes neither the
\* cookie jars nor the request history.
C4_LateResponseDiscarded ==
    [][\A d \in inflight :
          (req[d.t].api = "client" /\ ~Current(d) /\ d \notin inflight')
             => (cookieJars' = cookieJars /\ requestHistory' = requestHistory)]_vars

C4_Witness ==
    \E t \in Callers :
       /\ late[t]
       /\ req[t].pc = "thrown"
       /\ req[t].lastError.kind = "timeout"
       /\ requestHistory = <<>>

\* C31: with its timers firing, every call of request() is over sooner or
\* later, by returning a response or by throwing, whatever the application
\* does with the dispatches, and it never makes more than retries + 1 attempts.
C31_RequestTerminates ==
    /\ [](req["t1"].attempt <= req["t1"].retries)
    /\ (req["t1"].pc # "idle") ~> Finished("t1")

\* C39: without the harness every attempt invokes the application once: each
\* dispatch is the plain call, and a throw of it ends the attempt with that
\* error.  With the harness the first call of an attempt passes the harness
\* environment; when it throws, the application is invoked a second time in
\* the same attempt and the request does not see the first error; when the
\* second call throws too, its error is the one the attempt fails with.
C39_DispatchFallback ==
    [][/\ \A t \in Callers :
             (~harness /\ req'[t].pc # "idle") => appCalls'[t] = req'[t].attempt + 1
       /\ \A e \in inflight' \ inflight :
             IF harness
             THEN \/ e.phase = "env"
                  \/ \E d \in inflight \ inflight' :
                        d.phase = "env" /\ d.t = e.t /\ d.attempt = e.attempt
             ELSE e.phase = "fallback"
       /\ \A d \in inflight \ inflight' :
             \* the call that was awaited has settled without a response
             (Current(d) /\ req'[d.t].response = req[d.t].response) =>
                IF d.phase = "env"
                THEN /\ harness
                     /\ appCalls'[d.t] = appCalls[d.t] + 1
                     /\ req' = req
                     /\ [d EXCEPT !.phase = "fallback", !.call = appCalls'[d.t]] \in inflight'
                ELSE /\ appCalls' = appCalls
                     /\ \A e \in inflight' : ~(e.t = d.t /\ e.attempt = d.attempt)
                     /\ req'[d.t].lastError.kind = "thrown"
                     /\ req'[d.t].lastError.call = d.call
      ]_vars

C39_Witness ==
    /\ harness
    /\ req["t1"].api = "client"
    /\ req["t1"].pc = "thrown"
    /\ req["t1"].retries = 1
    /\ req["t1"].attempt = 1
    /\ appCalls["t1"] = 4
    /\ req["t1"].lastError = ThrownError(4, FALSE)

\* C38: the Cookie header of a call of HttpTestClient.request is the one
\* prepared from the jar when the call was made: a step that issues the call
\* sets it from the jar entry of the session key, and no later step of the same
\* call changes it, so every retry attempt is dispatched with it whatever the
\* jar entry has become through other requests or clearCookies.
C38_HeadersPreparedOnce ==
    [][\A t \in Callers :
          /\ (req[t].pc = "idle" /\ req'[t].pc # "idle" /\ req'[t].api = "client") =>
                \E x \in {NoCookie, ExplicitCookie} :
                   req'[t].sent = PrepareCookieHeader(cookieJars, req'[t].key, x)
          /\ (req[t].pc # "idle" /\ req[t].api = "client") =>
                /\ req'[t].sent = req[t].sent
                /\ req'[t].key = req[t].key
          /\ Retry(t) => /\ req'[t].attempt = req[t].attempt + 1
                         /\ req'[t].sent = req[t].sent
      ]_vars

\* a retry attempt in flight without a cookie, as prepared when the call was
\* made, after another request's response has stored one under the key
C38_Witness ==
    /\ req["t1"].api = "client"
    /\ req["t1"].pc = "race"
    /\ req["t1"].attempt = 1
    /\ req["t1"].sent = NoCookie
    /\ cookieJars[req["t1"].key] = "sid=abc"
    /\ \E d \in inflight : d.t = "t1" /\ d.attempt = 1

\* the jar of an api
JarOf(api) == IF api = "client" THEN cookieJars ELSE jar

\* request t has received a response whose status its call does not accept
FailedValidation(t) ==
    /\ req[t].pc \in {"text", "thrown"}
    /\ req[t].expected.defined
    /\ req[t].response # NoResponse
    /\ req[t].response.status \notin req[t].expected.set

\* C37: a response whose status the call does not accept still updates the
\* jar: the step of HttpTestClient.request (expectedStatus) or of requestJSON
\* (expected, default 200) that receives it writes its Set-Cookie value under
\* the session key before the error is raised, and the next request made on
\* that key without a Cookie header of its own sends that value.
C37_FailedResponseStoresCookie ==
    [][/\ \A d \in inflight, resp \in Responses :
             LET r == req[d.t] IN
             (/\ r.expected.defined /\ resp.status \notin r.expected.set
              /\ resp.setCookie # NoCookie
              /\ \/ AppResponds(d, resp) /\ Current(d)
                 \/ LegacyResponds(d, resp))
             => /\ JarOf(r.api)'[r.key] = resp.setCookie
                /\ req'[d.t].pc = "text"
                /\ req'[d.t].lastError = req[d.t].lastError
       /\ \A t, u \in Callers :
             (/\ req[t].pc = "idle" /\ req'[t].pc # "idle"
              /\ lastDone[req'[t].api][req'[t].key] = u
              /\ FailedValidation(u)
              /\ req[u].response.setCookie # NoCookie
              /\ req'[t].sent # ExplicitCookie)
             => req'[t].sent = req[u].response.setCookie
      ]_vars

\* requestJSON of t1 was answered 500 with a cookie and has thrown; the next
\* legacy request on the key was sent with that cookie
C37_Witness ==
    /\ req["t1"].api = "legacy"
    /\ req["t1"].pc = "thrown"
    /\ req["t1"].lastError = RequestFailedError(req["t1"].response.call, 500, "b1")
    /\ req["t1"].response.setCookie = "sid=abc"
    /\ req["t2"].api = "legacy"
    /\ req["t2"].pc # "idle"
    /\ req["t2"].key = req["t1"].key
    /\ req["t2"].sent = "sid=abc"

\* the same through HttpTestClient.request with expectedStatus
C37_WitnessClient ==
    /\ req["t1"].api = "client"
    /\ req["t1"].pc = "thrown"
    /\ req["t1"].lastError.kind = "status"
    /\ req["t1"].response.setCookie = "sid=abc"
    /\ req["t2"].api = "client"
    /\ req["t2"].pc # "idle"
    /\ req["t2"].key = req["t1"].key
    /\ req["t2"].sent = "sid=abc"

\* C36: the client that session(key) returns keeps its own cookie map and
\* history.  A response received through it stores its cookie in that map and
\* adds to that history, and leaves the parent's map (what the parent's
\* getCookies(key) returns) and history as they were; a response received by
\* the parent, the parent's clearCookies(key) and clearCookies() leave its
\* cookie and history as they were; so does the cleanup of a test context,
\* which calls the parent's clearCookies(contextId).
C36_SessionClientSeparate ==
    [][/\ \A k \in SessionKeys, resp \in SessionResponses :
             SessionResponds(k, resp) =>
                /\ resp.setCookie # NoCookie => sessionClients'[k].cookie = resp.setCookie
                /\ Len(sessionClients'[k].requestHistory) =
                      Len(sessionClients[k].requestHistory) + 1
                /\ GetCookies(cookieJars', k) = GetCookies(cookieJars, k)
                /\ cookieJars' = cookieJars
                /\ requestHistory' = requestHistory
       /\ (cookieJars' # cookieJars \/ requestHistory' # requestHistory) =>
             \A x \in SessionKeys :
                /\ sessionClients'[x].cookie = sessionClients[x].cookie
                /\ sessionClients'[x].requestHistory = sessionClients[x].requestHistory
       /\ \A d \in inflight, resp \in Responses :
             AppResponds(d, resp) => sessionClients' = sessionClients
       /\ \A c \in DirectHolders :
             ContextCleanup(c) =>
                /\ sessionClients'[ContextId(c)].cookie = sessionClients[ContextId(c)].cookie
                /\ contexts'[c].pc = "cleaned"
      ]_vars

\* after the cleanup of the context its client still holds the cookie it
\* captured, and the session client of key "A" holds one while the parent's
\* entry of "A" has been cleared
C36_Witness ==
    /\ contexts["h1"].pc = "cleaned"
    /\ sessionClients[ContextId("h1")].cookie = "sid=abc"
    /\ sessionClients["A"].cookie = "sid=xyz"
    /\ requestHistory # <<>>
    /\ cookieJars["A"] = NoCookie
    /\ GetCookies(cookieJars, ContextId("h1")) = NoCookie

(***************************************************************************)
(* Properties of the cookie jars                                           *)
(***************************************************************************)
\* the cookie store a request of the given api works on
StoreOf(api) == IF api = "legacy" THEN jar ELSE cookieJars
StoreOfNext(api) == IF api = "legacy" THEN jar' ELSE cookieJars'

\* the step in which caller t receives the response it is awaiting
ReceivesResponse(t) ==
    /\ req[t].pc \in {"race", "await"}
    /\ req'[t].pc \in {"text", "returned"}

\* the step in which caller t issues its request
Issues(t) == req[t].pc = "idle" /\ req'[t].pc \in {"race", "await"}

\* C5: every response received on a key that carries a Set-Cookie value makes
\* the stored cookie of that key exactly that value, whatever was stored
\* before, and a response without Set-Cookie leaves the stored value as it
\* was; in the legacy jar and in HttpTestClient.
C5_LastWriteWins ==
    [][\A t \in Callers :
          ReceivesResponse(t) =>
             LET c == req'[t].response.setCookie
                 k == req[t].key
                 a == req[t].api
             IN IF c # NoCookie THEN StoreOfNext(a)[k] = c
                                ELSE StoreOfNext(a)[k] = StoreOf(a)[k]]_vars

C5_Witness ==
    /\ req["t1"].api = "client" /\ req["t2"].api = "client"
    /\ req["t1"].pc = "returned" /\ req["t2"].pc = "returned"
    /\ req["t1"].key = req["t2"].key
    /\ req["t1"].response.setCookie = "sid=abc"
    /\ req["t2"].sent = "sid=abc"
    /\ req["t2"].response.setCookie = "sid=xyz"
    /\ lastDone["client"][req["t2"].key] = "t2"
    /\ cookieJars[req["t2"].key] = "sid=xyz"

\* C6: when the latest response received on a key carried Set-Cookie c and the
\* key was not reset since, the next request issued on that key without an
\* explicit cookie header is dispatched with the header cookie: c.
C6_CookieReplay ==
    [][\A t \in Callers :
          Issues(t) =>
             LET a == req'[t].api
                 k == req'[t].key
                 p == lastDone[a][k]
             IN (/\ p # NoCaller
                 /\ req[p].response.setCookie # NoCookie
                 /\ req'[t].sent # ExplicitCookie)
                => req'[t].sent = req[p].response.setCookie]_vars

C6_Witness ==
    /\ req["t1"].api = "legacy" /\ req["t1"].pc = "returned"
    /\ req["t1"].response.setCookie = "sid=abc"
    /\ req["t2"].api = "legacy" /\ req["t2"].pc = "await"
    /\ req["t2"].key = req["t1"].key
    /\ lastDone["legacy"][req["t1"].key] = "t1"
    /\ req["t2"].sent = "sid=abc"

\* a step taken on behalf of the request of caller t
StepOf(t) ==
    \/ req'[t] # req[t]
    \/ appCalls'[t] # appCalls[t]
    \/ late'[t] # late[t]
    \/ \E d \in inflight : d.t = t /\ d \notin inflight'

\* C7: a request on session key A sends no stored cookie other than the one
\* stored under A, and no step of it creates, overwrites or deletes the entry
\* of another key (or any entry of the other module's jar).
C7_SessionIsolation ==
    [][\A t \in Callers :
          StepOf(t) =>
             LET a == req'[t].api
                 k == req'[t].key
             IN /\ \A b \in JarKeys \ {k} : StoreOfNext(a)[b] = StoreOf(a)[b]
                /\ a = "client" => jar' = jar
                /\ a = "legacy" => cookieJars' = cookieJars
                /\ Issues(t) => req'[t].sent \in {NoCookie, ExplicitCookie, StoreOf(a)[k]}]_vars

C7_Witness ==
    /\ req["t1"].pc = "returned" /\ req["t2"].pc = "returned"
    /\ req["t1"].api = "client" /\ req["t2"].api = "client"
    /\ req["t1"].key = "default" /\ req["t2"].key = "A"
    /\ cookieJars["default"] = "sid=abc" /\ cookieJars["A"] = "sid=xyz"
    /\ req["t1"].response.setCookie = "sid=abc"
    /\ req["t2"].response.setCookie = "sid=xyz"
    /\ req["t2"].sent = NoCookie

\* C25: resetCookies(jarKey) and clearCookies(jarKey) called with a key (any
\* string, the empty one included) leave the entries of all other keys as
\* they were, and a call without a key empties every entry.
C25_ResetOnlyGivenKey ==
    [][\A k \in KeyArgs :
          /\ ResetCookies(k) =>
                IF k = Undefined THEN \A b \in JarKeys : jar'[b] = NoCookie
                ELSE \A b \in JarKeys \ {k} : jar'[b] = jar[b]
          /\ ClearCookies(k) =>
                IF k = Undefined THEN \A b \in JarKeys : cookieJars'[b] = NoCookie
                ELSE \A b \in JarKeys \ {k} : cookieJars'[b] = cookieJars[b]]_vars

\* C27: an attempt number a of request() that fails without a response (the
\* dispatch throws or the timer fires) is followed by a wait of 100 * 2^a ms
\* and attempt a+1 when a is not the last allowed attempt, and by no wait when
\* it is the last one; no wait follows a response, whether it is returned or
\* fails status validation.
C27_BackoffSchedule ==
    [][\A t \in Callers :
          /\ (req[t].api = "client" /\ req[t].pc = "race"
                 /\ req'[t].pc \in {"backoff", "thrown"})
             => IF req[t].attempt < req[t].retries
                THEN /\ req'[t].pc = "backoff"
                     /\ req'[t].delays = Append(req[t].delays, 100 * (2 ^ req[t].attempt))
                ELSE /\ req'[t].pc = "thrown"
                     /\ req'[t].delays = req[t].delays
          /\ (req[t].api = "client" /\ (ReceivesResponse(t) \/ req[t].pc = "text"))
             => (req'[t].delays = req[t].delays /\ req'[t].pc # "backoff")]_vars

\* the entries of a list that set the header `n`, by position
Setting(entries, n) == {i \in 1..Len(entries) : Lower(entries[i][1]) = n}
\* the value the last of them gives
LastSet(entries, n) ==
    entries[CHOOSE i \in Setting(entries, n) : \A j \in Setting(entries, n) : j <= i][2]

\* C28: in the headers prepareHeaders returns, a name the per-request headers
\* supply carries the per-request value (also when the default headers supply
\* it, and whatever the case of the name); a name only the default headers
\* supply carries the default value; and when neither supplies a cookie header
\* the cookie header is the stored cookie of the resolved session key, absent
\* when that key has no cookie.  An explicit cookie header, even an empty one,
\* is therefore never replaced by the stored cookie.
C28_HeaderPrecedence ==
    [][CallPrepareHeaders(prepared'.key, prepared'.request) =>
          LET k == prepared'.key
              hs == prepared'.request
          IN \A n \in LowerNames :
                prepared'.headers[n] =
                   IF Setting(hs, n) # {} THEN LastSet(hs, n)
                   ELSE IF Setting(defaultHeaders, n) # {} THEN LastSet(defaultHeaders, n)
                   ELSE IF n = "cookie" /\ cookieJars[ResolveJar(k)] # NoCookie
                        THEN cookieJars[ResolveJar(k)]
                   ELSE Absent
      ]_vars

C28_Witness ==
    /\ defaultHeaders = <<(<<"X-A", "d">>)>>
    /\ cookieJars["A"] = "sid=abc"
    /\ prepared.key = "A"
    /\ prepared.request = <<(<<"x-a", "r">>)>>
    /\ prepared.headers = [n \in LowerNames |-> IF n = "x-a" THEN "r" ELSE "sid=abc"]

(***************************************************************************)
(* Properties of concurrent requests                                       *)
(***************************************************************************)
\* the callers of an order whose request() call has returned a response
ReturnedIn(order, r) ==
    SelectSeq(order, LAMBDA t : r[t].api = "client" /\ r[t].pc = "returned")

\* C29: the history only grows at its end: the entries it holds stay where
\* they are and as they are; its entries are those of the request() calls that
\* returned, in the order in which those calls completed, whatever the order
\* of issue; getHistory() returns the entries of the log, and push and pop on
\* the returned array leave the log as it is.
C29_HistoryCompletionOrder ==
    [][/\ Len(requestHistory') >= Len(requestHistory)
       /\ SubSeq(requestHistory', 1, Len(requestHistory)) = requestHistory
       /\ [i \in 1..Len(requestHistory') |-> requestHistory'[i].request]
             = ReturnedIn(completed', req')
       /\ \A i \in 1..Len(requestHistory') :
             requestHistory'[i].response = req'[requestHistory'[i].request].response
       /\ GetHistory => (historyCopy' = requestHistory /\ requestHistory' = requestHistory)
       /\ (CopyPush \/ CopyPop) => requestHistory' = requestHistory
      ]_vars

C29_Witness ==
    /\ issued = <<"t1", "t2">>
    /\ completed = <<"t2", "t1">>
    /\ Len(requestHistory) = 2
    /\ requestHistory[1].request = "t2"
    /\ requestHistory[2].request = "t1"
    /\ historyCopy = <<requestHistory[1], ForeignEntry>>

\* the callers of an order that work on store `a` under key k and whose
\* response carried a Set-Cookie value
SettersIn(order, a, k) ==
    SelectSeq(order, LAMBDA t : /\ req[t].api = a
                                /\ req[t].key = k
                                /\ req[t].response.setCookie # NoCookie)

\* C30: when every request issued on a session key has completed, the cookie
\* stored under the key is the Set-Cookie value of the response received last
\* among those that carried one, and nothing when none carried one; in
\* HttpTestClient and in the legacy jar, in every interleaving.
C30_LastResponderWins ==
    \A a \in {"client", "legacy"}, k \in JarKeys :
       LET same == {t \in Callers : req[t].api = a /\ req[t].key = k}
           setters == SettersIn(received, a, k)
       IN (same # {} /\ \A t \in same : Finished(t)) =>
             StoreOf(a)[k] = IF setters = <<>> THEN NoCookie
                             ELSE req[setters[Len(setters)]].response.setCookie

C30_Witness ==
    /\ req["t1"].api = "client" /\ req["t2"].api = "client"
    /\ req["t1"].key = "A" /\ req["t2"].key = "A"
    /\ Finished("t1") /\ Finished("t2")
    /\ issued = <<"t1", "t2">>
    /\ received = <<"t2", "t1">>
    /\ req["t2"].response.setCookie = "sid=xyz"
    /\ req["t1"].response.setCookie = "sid=abc"
    /\ cookieJars["A"] = "sid=abc"

(***************************************************************************)
(* Properties of the request history                                       *)
(***************************************************************************)
\* the entries of the history that belong to the request of caller t
EntriesOf(t) == {j \in 1..Len(requestHistory) : requestHistory[j].request = t}

\* C16: when a request() call has ended after an attempt returned a response,
\* by returning it or by failing with the status error, the history holds an
\* entry of that request with that response.
C16_ResponseAlwaysInHistory ==
    \A t \in Callers :
       LET r == req[t] IN
       (/\ r.api = "client"
        /\ r.pc = "returned" \/ (r.pc = "thrown" /\ r.lastError.kind = "status"))
       => \E j \in EntriesOf(t) : requestHistory[j].response = r.response

\* C17: an attempt that ends without a response (the dispatch throws or the
\* timer fires) changes neither the cookie jars nor the history; the cookie
\* jars change only in the step that receives a response, after which the
\* request makes no further attempt; a request that has returned has exactly
\* one history entry; and a request whose attempts all ended without a
\* response leaves the cookie jars and the history as they were before it.
C17_FailedAttemptsLeaveNoTrace ==
    [][\A t \in Callers :
          /\ (req[t].api = "client" /\ req[t].pc = "race"
                 /\ req'[t].pc \in {"backoff", "thrown"})
             => (cookieJars' = cookieJars /\ requestHistory' = requestHistory)
          /\ (req'[t].api = "client" /\ (\E k \in JarKeys : cookieJars'[k] # cookieJars[k]))
             => ReceivesResponse(t)
          /\ req[t].pc \in {"text", "returned", "thrown"}
             => req'[t].pc \notin {"race", "backoff"}
          /\ (req'[t].api = "client" /\ req'[t].pc = "returned")
             => Cardinality({j \in 1..Len(requestHistory') :
                                requestHistory'[j].request = t}) = 1
          /\ (req'[t].api = "client" /\ req'[t].pc = "thrown"
                 /\ req'[t].lastError.kind \in {"timeout", "thrown"})
             => /\ cookieJars' = [k \in JarKeys |-> NoCookie]
                /\ requestHistory' = <<>>]_vars

C17_Witness ==
    /\ req["t1"].pc = "returned"
    /\ req["t1"].attempt = 2
    /\ req["t1"].delays = <<BackoffDelay(0), BackoffDelay(1)>>
    /\ req["t1"].lastError.kind = "timeout"
    /\ Len(requestHistory) = 1
    /\ requestHistory[1].response.setCookie = "sid=abc"
    /\ cookieJars[req["t1"].key] = "sid=abc"

(***************************************************************************)
(* Properties of TestDataFactory                                           *)
(***************************************************************************)
\* the output of the n-th generator call (n >= 1) after faker.seed(s)
RECURSIVE AfterCalls(_, _)
AfterCalls(st, n) == IF n = 0 THEN st ELSE AfterCalls(Consume(st), n - 1)
NthOutput(s, n) == Generate(AfterCalls(FakerSeed(s), n - 1))

\* C3: after setSeed(s) on a factory followed only by generator calls on that
\* factory, at least one of them with a per-call seed override, the next call
\* without override returns what the call at its position of the seed-s
\* sequence returns (setSeed(1); user(); user({seed: 99}); user() gives the
\* third output of the seed-1 sequence).
C3_OverrideDoesNotLeak ==
    \A j, i \in 1..Len(factoryLog) :
       (/\ j < i
        /\ factoryLog[j].op = "setSeed"
        /\ \A m \in (j+1)..i : factoryLog[m].op = "user" /\ factoryLog[m].f = factoryLog[j].f
        /\ \E m \in (j+1)..(i-1) : factoryLog[m].seed # NoSeed
        /\ factoryLog[i].seed = NoSeed)
       => factoryLog[i].out = NthOutput(factoryLog[j].seed, i - j)

\* C34: the outputs of factory A after A.setSeed(s) are those of the seed-s
\* sequence at the position counted over A's own calls, whatever is done with
\* another instance in between (constructing it, setSeed on it, generator
\* calls on it with or without a per-call seed).  A's own calls are taken
\* without per-call seed, so that only the other instance can interfere.
C34_FactoriesIndependent ==
    \A j, i \in 1..Len(factoryLog) :
       (/\ j < i
        /\ factoryLog[j].op = "setSeed"
        /\ factoryLog[i].op = "user"
        /\ factoryLog[i].f = factoryLog[j].f
        /\ factoryLog[i].seed = NoSeed
        /\ \A m \in (j+1)..(i-1) :
              factoryLog[m].f = factoryLog[j].f =>
                 factoryLog[m].op = "user" /\ factoryLog[m].seed = NoSeed)
       => factoryLog[i].out =
             NthOutput(factoryLog[j].seed,
                       Cardinality({m \in (j+1)..i : factoryLog[m].f = factoryLog[j].f}))

\* the generated object of a log entry: its seeded fields and its date fields
Output(e) == <<e.out, e.dates>>

\* C18: two runs of the same sequence of generator calls on a factory, each
\* started by setSeed(s) with the same s, return equal objects call by call,
\* and two calls user({seed: s}) with the same per-call seed return equal
\* objects.
C18_SeedReproducibility ==
    /\ \A j, j2 \in 1..Len(factoryLog) : \A n \in 1..Len(factoryLog) :
          (/\ j + n < j2 /\ j2 + n <= Len(factoryLog)
           /\ factoryLog[j].op = "setSeed" /\ factoryLog[j2].op = "setSeed"
           /\ factoryLog[j].seed = factoryLog[j2].seed
           /\ factoryLog[j].f = factoryLog[j2].f
           /\ \A m \in 1..n :
                 /\ factoryLog[j + m].op = "user" /\ factoryLog[j2 + m].op = "user"
                 /\ factoryLog[j + m].f = factoryLog[j].f
                 /\ factoryLog[j2 + m].f = factoryLog[j].f
                 /\ factoryLog[j + m].seed = factoryLog[j2 + m].seed)
          => Output(factoryLog[j + n]) = Output(factoryLog[j2 + n])
    /\ \A i, i2 \in 1..Len(factoryLog) :
          (/\ factoryLog[i].op = "user" /\ factoryLog[i2].op = "user"
           /\ factoryLog[i].seed # NoSeed
           /\ factoryLog[i].seed = factoryLog[i2].seed)
          => Output(factoryLog[i]) = Output(factoryLog[i2])

(***************************************************************************)
(* Properties of ScopedTestData                                            *)
(***************************************************************************)
\* the scopes that contain no ':'
ColonFree == {sc \in Scopes : \A i \in 1..Len(sc) : sc[i] # ":"}

\* what keys() and get() of a view show: its set of key/value pairs
ScopeContents(data, scope) ==
    {<<k, ScopedGet(data, scope, k)>> : k \in ScopedKeys(data, scope)}

\* C35: for any two distinct scopes of the same store, with ':' allowed in
\* scopes and keys, set, delete, clear and restore on the view of the one
\* leave the keys, the values and the size shown by the view of the other
\* as they were.
C35_ScopeViewsDisjoint ==
    [][\A sc \in Scopes : \A other \in Scopes \ {sc} :
          (\/ \E k \in UserKeys, v \in Values : ScopedSet(sc, k, v)
           \/ \E k \in UserKeys : ScopedDelete(sc, k)
           \/ ScopedClear(sc)
           \/ \E n \in SnapNames : ScopedRestore(sc, n))
          => ScopeContents(storeData', other) = ScopeContents(storeData, other)]_vars

\* C8: clear() on a view whose scope has no ':' removes every key of that
\* scope and leaves every key and value of every other such scope as it was.
C8_ScopedClearIsolation ==
    [][\A sc \in ColonFree :
          ScopedClear(sc) =>
             /\ ScopedKeys(storeData', sc) = {}
             /\ \A other \in ColonFree \ {sc} :
                   /\ ScopeContents(storeData', other) = ScopeContents(storeData, other)
                   /\ \A p \in StoreKeys :
                         StartsWith(p, Prefix(other)) => storeData'[p] = storeData[p]]_vars

C8_Witness ==
    /\ ret = Call("clear", <<"a">>, "void")
    /\ snapshots[<<"a">>]["s"].entries # {}
    /\ ScopedKeys(storeData, <<"a">>) = {}
    /\ ScopedKeys(storeData, <<"b">>) # {}

\* C9: after set(k, v); snapshot(s); delete(k); restore(s) on a view, restore
\* has returned true and get(k) is v.
C9_SnapshotRoundTrip ==
    script.pc = 4 =>
       /\ ret = Call("restore", script.scope, "true")
       /\ ScopedGet(storeData, script.scope, script.key) = script.value

C9_Witness ==
    /\ script.pc = 4
    /\ storeOps > 0
    /\ script.key = <<"b", ":", "k">>
    /\ ScopedGet(storeData, script.scope, script.key) = "v2"

\* C10: snapshot(name) captures the key/value set the view shows, and a
\* restore(name) that returns true leaves the view showing exactly the
\* captured set, whatever the scope held before, and changes no key outside
\* the scope.
C10_RestoreReplacesScope ==
    [][\A sc \in Scopes, n \in SnapNames :
          /\ ScopedSnapshot(sc, n) =>
                snapshots'[sc][n].entries = ScopeContents(storeData, sc)
          /\ (ScopedRestore(sc, n) /\ ret'.value = "true") =>
                /\ ScopeContents(storeData', sc) = snapshots[sc][n].entries
                /\ \A p \in StoreKeys :
                      ~StartsWith(p, Prefix(sc)) => storeData'[p] = storeData[p]]_vars

C10_Witness ==
    /\ script.pc = 0
    /\ storeOps = MaxStoreOps
    /\ ret = Call("restore", <<"a">>, "true")
    /\ snapshots[<<"a">>]["s"].entries = {<<(<<"k">>), "v1">>}
    /\ ScopeContents(storeData, <<"a">>) = {<<(<<"k">>), "v1">>}
    /\ storeData[<<"x">>] = "v2"

\* C11: restore(name) for a name that was never snapshotted on the view
\* returns false and leaves every key of the underlying store, inside and
\* outside the scope, and every snapshot as it was.
C11_RestoreUnknownName ==
    [][\A sc \in Scopes, n \in SnapNames :
          (ScopedRestore(sc, n) /\ ~snapshots[sc][n].taken) =>
             /\ ret' = Call("restore", sc, "false")
             /\ storeData' = storeData
             /\ snapshots' = snapshots]_vars

C11_Witness ==
    /\ ret = Call("restore", <<"a">>, "false")
    /\ ~snapshots[<<"a">>]["s"].taken
    /\ snapshots[<<"b">>]["s"].taken
    /\ ScopedKeys(storeData, <<"a">>) # {}
    /\ storeData[<<"x">>] = "v1"


(***************************************************************************)
(* Properties of the cleanup-handler registry                              *)
(***************************************************************************)
\* C12: a runCleanup() call invokes the handlers in registration order, each
\* exactly once and each only after the previous one has settled; a handler
\* that throws or rejects does not stop the later ones; when the call has
\* resolved every handler registered before it was invoked; and the call
\* never rejects.
C12_CleanupFaultTolerance ==
    /\ run.pc # "rejected"
    /\ \A j \in 1..Len(run.log) :
          run.log[j] = <<IF j % 2 = 1 THEN "call" ELSE "settled", (j + 1) \div 2>>
    /\ run.pc = "await" => (Len(run.log) = 2 * run.i - 1)
    /\ run.pc = "resolved" =>
          /\ Len(run.log) % 2 = 0
          /\ Len(run.log) >= 2 * run.registered

C12_Witness ==
    /\ run.pc = "resolved"
    /\ run.calls = 2
    /\ cleanupHandlers = <<"rejects", "throws", "resolves">>
    /\ run.registered = 3
    /\ Len(run.log) = 6

(***************************************************************************)
(* Properties of the database adapters                                     *)
(***************************************************************************)
\* C13: on the in-memory adapter, when initialize() was called with the live
\* map holding S0 and only mutations of the live map, cleanup() and reset()
\* calls followed, reset() leaves the live map equal to S0, and cleanup()
\* leaves the live map empty and the captured map equal to S0.
C13_MemoryReset ==
    (adapter.type = "memory" /\ adapter.life = "initialized") =>
       /\ adapterRet.op = "reset" => adapter.live = adapterS0
       /\ adapterRet.op = "cleanup" =>
             (adapter.live = EmptyMap /\ adapter.initialData = adapterS0)

C13_Witness ==
    /\ adapter.type = "memory"
    /\ adapter.life = "initialized"
    /\ adapterRet.op = "reset"
    /\ adapterRet.before = EmptyMap
    /\ adapterS0 = [k \in MemKeys |-> IF k = "k1" THEN "v1" ELSE Absent]
    /\ adapter.live = adapterS0

\* C14: when cleanup() of the SQLite or the D1 adapter has listed the tables
\* and the DELETE of some table fails, every table whose DELETE does not fail
\* is empty after the call.
C14_CleanupPartialFailure ==
    (/\ adapter.type \in {"sqlite", "d1"}
     /\ adapterRet.op = "cleanup"
     /\ adapterRet.attempted
     /\ adapterRet.failing # {})
    => \A t \in Tables \ adapterRet.failing : ~adapter.rows[t]

\* C15: cleanup() of every adapter variant resolves: when the catalog query
\* fails, when the DELETE of a table fails, before initialize() and after
\* close().
C15_CleanupNeverRejects ==
    adapterRet.op = "cleanup" => adapterRet.outcome = "resolved"

C15_Witness ==
    /\ adapter.type = "drizzle-sqlite"
    /\ adapterRet.op = "cleanup"
    /\ adapterRet.outcome = "resolved"
    /\ adapterRet.attempted
    /\ adapterRet.failing = {"posts"}
    /\ adapter.rows["posts"]

\* C19: isReady() of every adapter variant resolves to true only when the
\* handle serves queries, to false before a handle is established and to
\* false after close(); and cleanup() and reset() called after close() fail.
C19_ReadyReflectsHandle ==
    /\ adapterRet.op = "isReady" =>
          /\ adapterRet.value => Serves(adapter.db)
          /\ (adapter.life = "constructed" /\ ~Serves(adapter.db)) => ~adapterRet.value
          /\ adapter.life = "closed" => ~adapterRet.value
    /\ (adapterRet.op \in {"cleanup", "reset"} /\ adapter.life = "closed")
          => adapterRet.outcome = "rejected"

\* C20: isReady() of every adapter variant resolves, in every lifecycle state
\* and with a missing or an unusable handle, and it resolves to false when
\* the handle does not serve queries.
C20_ReadyNeverRejects ==
    adapterRet.op = "isReady" =>
       /\ adapterRet.outcome = "resolved"
       /\ ~Serves(adapter.db) => ~adapterRet.value

C20_Witness ==
    /\ adapter.type = "drizzle-d1"
    /\ adapter.db = "undefined"
    /\ adapter.life = "closed"
    /\ adapterRet.op = "isReady"
    /\ adapterRet.outcome = "resolved"
    /\ ~adapterRet.value

C24_ForeignKeysRestored ==
    (/\ Backend(adapter.type) = "sqlite"
     /\ adapter.life = "initialized"
     /\ adapterRet.op = "cleanup")
    => adapter.fk

(***************************************************************************)
(* Properties of the registry of stores                                    *)
(***************************************************************************)
\* C22: the handler list of every store only grows, by appending, and only
\* in an onCleanup() call: clear(), restore(), runCleanup(), clearTestStore()
\* and cleanupAllTestStores() leave every handler list as it was (clear() and
\* the end of cleanupAllTestStores()
\* empty the data, runCleanup() and the start of cleanupAllTestStores() leave
\* the data alone); cleanupAllTestStores() starts a run on every store of the
\* registry; and a run that has resolved has called every handler that was
\* registered when it started.
C22_HandlersAppendOnly ==
    [][/\ \A id \in DOMAIN heap :
             /\ id \in DOMAIN heap'
             /\ Len(heap'[id].handlers) >= Len(heap[id].handlers)
             /\ SubSeq(heap'[id].handlers, 1, Len(heap[id].handlers)) = heap[id].handlers
       /\ (\E id \in DOMAIN heap : heap'[id].handlers # heap[id].handlers)
          => \E h \in Holders, kind \in RegisteredKinds : HolderOnCleanup(h, kind)
       /\ \A h \in Holders : HolderClear(h) => heap'[held[h].store].data = EmptyData
       /\ \A h \in Holders : HolderRunCleanup(h) => heap' = heap
       /\ CleanupAllTestStores =>
             /\ heap' = heap
             /\ \A id \in RegisteredIds :
                   /\ storeRuns'[id].calls = storeRuns[id].calls + 1
                   /\ storeRuns'[id].registered = Len(heap[id].handlers)
       /\ CleanupAllSettled =>
             \A id \in DOMAIN heap :
                heap'[id].data = IF id \in RegisteredIds THEN EmptyData ELSE heap[id].data
       /\ \A id \in DOMAIN storeRuns' :
             storeRuns'[id].pc = "resolved" =>
                \A i \in 1..storeRuns'[id].registered :
                   \E j \in 1..Len(storeRuns'[id].log) : storeRuns'[id].log[j] = <<"call", i>>
      ]_vars

C22_Witness ==
    \E id \in DOMAIN heap :
       /\ heap[id].handlers = <<"resolves", "throws">>
       /\ heap[id].data = EmptyData
       /\ storeRuns[id].pc = "resolved"
       /\ storeRuns[id].calls = 2
       /\ storeRuns[id].registered = 2
       /\ Len(storeRuns[id].log) = 4
       /\ sweep.pc = "idle"

\* the handlers a run has called and seen settle so far, in order
CalledBy(r) == SelectSeq(r.log, LAMBDA e : e[1] = "call")

\* C32: cleanupAllTestStores() calls runCleanup() on every store of the Map;
\* each run calls the handlers of its store one after the other in
\* registration order and never rejects; the sweep clears nothing before every
\* run it started has settled, and the step in which it resolves leaves every
\* store of the Map without entries.
C32_SweepClearsAfterRuns ==
    [][/\ CleanupAllTestStores =>
             /\ sweep'.started = RegisteredIds
             /\ \A id \in RegisteredIds :
                   /\ storeRuns'[id].calls = storeRuns[id].calls + 1
                   /\ storeRuns'[id].registered = Len(heap[id].handlers)
             /\ heap' = heap
       /\ \A id \in DOMAIN storeRuns' :
             /\ storeRuns'[id].pc \in {"idle", "await", "resolved"}
             /\ \A n \in 1..Len(CalledBy(storeRuns'[id])) : CalledBy(storeRuns'[id])[n][2] = n
             /\ storeRuns'[id].pc = "resolved" =>
                   Len(CalledBy(storeRuns'[id])) >= storeRuns'[id].registered
       /\ (sweep.pc = "awaiting" /\ sweep'.pc = "idle") =>
             /\ \A id \in sweep.started :
                   \/ storeRuns[id].pc = "resolved"
                   \/ storeRuns[id].calls > sweep.calls[id]
             /\ \A id \in RegisteredIds' : heap'[id].data = EmptyData
             /\ storeRuns' = storeRuns
      ]_vars

\* the sweep is waiting: the run of one store has settled, the run of the
\* other is awaiting its handler, and an entry is still there
C32_Witness ==
    /\ sweep.pc = "awaiting"
    /\ Cardinality(sweep.started) = 2
    /\ \E id \in sweep.started :
          /\ storeRuns[id].pc = "resolved"
          /\ Len(storeRuns[id].log) > 0
          /\ heap[id].data # EmptyData
    /\ \E id \in sweep.started : storeRuns[id].pc = "await"

\* C40: while a test run by testWithContext has not reached its own cleanup,
\* the entry it wrote to the store of its level is there for it to read,
\* whatever other contexts of the same level do, their cleanup included.
C40_ContextDataUntilOwnCleanup ==
    \A c \in DirectHolders :
       (contexts[c].pc = "running" /\ contexts[c].wrote) => HolderGet(c) # Absent

\* C33: with autoCleanup, what the store of the 'suite' level holds when a
\* test ends is what it holds when the next test of the suite starts: the
\* hooks that run in between empty only the store of the 'test' level.
C33_SuiteDataSurvivesTests ==
    [][(/\ hooks.pc = "between" /\ hooks'.pc = "test"
        /\ hooks.autoCleanup
        /\ hooks.test >= 1)
       => LevelData("suite")' = hooks.kept["suite"]]_vars

\* C23: all holders that asked for the same level hold the one store the
\* registry keeps for that level, holders of different levels hold different
\* stores; getTestStore creates a store only when the level has none; a value
\* set through one holder is what every holder of that level reads, and the
\* holders of the other levels read what they read before; clearTestStore on
\* a level without a store changes nothing.
C23_RegistrySharing ==
    [][/\ \A h1, h2 \in Holders :
             (held'[h1] # NoHold /\ held'[h2] # NoHold) =>
                ((held'[h1].level = held'[h2].level) <=> (held'[h1].store = held'[h2].store))
       /\ \A h \in Holders :
             held'[h] # NoHold =>
                /\ held'[h].store = stores'[held'[h].level]
                /\ heap'[held'[h].store].level = held'[h].level
       /\ \A h \in Holders, l \in Levels :
             GetTestStore(h, l) =>
                IF stores[l] = NoStore
                THEN heap' = Append(heap, NewTestDataStore(l))
                ELSE heap' = heap /\ stores' = stores
       /\ \A h \in Holders, v \in Values :
             HolderSet(h, v) =>
                \A g \in Holders :
                   held[g] # NoHold =>
                      heap'[held'[g].store].data[SharedKey] =
                         IF held[g].level = held[h].level THEN v ELSE HolderGet(g)
       /\ \A l \in Levels :
             (ClearTestStore(l) /\ stores[l] = NoStore) => (heap' = heap /\ stores' = stores)
      ]_vars

C23_Witness ==
    /\ held["h1"].level = "test"
    /\ held["view"].level = "test"
    /\ held["h2"].level = "suite"
    /\ HolderGet("h1") = "v1"
    /\ HolderGet("view") = "v1"
    /\ HolderGet("h2") = "v2"

(***************************************************************************)
(* Properties of the unique-value generators                               *)
(***************************************************************************)
\* C26: no two calls of uniqueEmail return the same string and no two calls
\* of uniqueUsername return the same string, whatever prefixes are passed;
\* the first calls with the default prefixes return test+1@example.com and
\* user1.
C26_UniqueValues ==
    \A fn \in DOMAIN generated :
       /\ \A i, j \in 1..Len(generated[fn]) :
             i # j => generated[fn][i] # generated[fn][j]
       /\ Len(generated[fn]) >= 1 =>
             generated[fn][1] \in
                {p \o <<"1">> : p \in UsernamePrefixes} \cup
                {p \o <<"+", "1">> \o EmailDomain : p \in EmailPrefixes}

=============================================================================
